---------------------------- MODULE Spec2Model ----------------------------
(***************************************************************************)
(* Verification model of the QRIS transaction watcher:                     *)
(*   - the long-running monitor   (scripts/watch_transactions.js)          *)
(*   - the one-shot fetcher       (scripts, normalizeDateInput & replay)   *)
(*   - the hosted worker          (worker/src/{index,browser,database}.ts) *)
(*                                                                         *)
(* The module holds several specifications over one set of variables; a    *)
(* specification leaves the variables of the other parts at their idle     *)
(* values.                                                                 *)
(*   SpecStore  : the upsert store (persistDetails / upsertTransactions)   *)
(*   Spec       : the monitor's bootstrap and polling loop, or the         *)
(*                invocations of the worker's fetch job                    *)
(*   SpecFair   : Spec, where every awaited step of a cycle settles        *)
(*   SpecClock  : Spec, where the wall clock can be set back               *)
(*   SpecSignal : the monitor with SIGINT / SIGTERM and its cleanup        *)
(*   SpecReplay : header capture and replay, in the three variants         *)
(*   SpecWalk   : the recursive detail extractor                           *)
(*   SpecDate   : date normalization of the one-shot fetcher               *)
(*   SpecLogin  : the login sequence, in the three variants                *)
(*   SpecCapture: navigation and header capture, event by event            *)
(*   SpecRun    : one cycle from login to the store                        *)
(***************************************************************************)
EXTENDS Integers, Sequences, FiniteSets, TLC

VARIABLES
    \* ---- upsert store (Cloudflare D1 table "transactions") ----
    table,          \* set of rows of the transactions table
    dbClock,        \* the store's CURRENT_TIMESTAMP (whole seconds)
    call,           \* the upsert call in progress (one loop over a batch)
    log,            \* completed upsert calls, oldest first
    everUpserted,   \* reference numbers whose INSERT..ON CONFLICT succeeded
    lastOp,         \* the last executed INSERT..ON CONFLICT statement
    \* ---- monitor (watch_transactions.js main / poll) ----
    mainPc,         \* position of main()
    pageUrl,        \* which page the browser tab shows
    loginFailed,    \* the last forced login threw and no login has succeeded since
    polling,        \* `let polling` of main
    lastRun,        \* `let lastRun` of main
    now,            \* Date.now(), in seconds
    timerSet,       \* setInterval(poll, ...) has been called
    nextTick,       \* when the interval timer is due next
    latestHeaders,  \* `let latestHeaders` of main
    inv,            \* the invocations of poll that are inside its body
    loginCount,     \* runs of the login sequence so far
    cyclesDone,     \* poll invocations that ran the body and finished
    \* ---- capture and replay of the API headers, one run of one variant ----
    rpVariant,      \* "monitor", "oneshot" or "worker"
    rpPc,           \* position of the run
    rpCaptured,     \* the header map the capture returned
    rpSent,         \* the header map handed to the in-page fetch
    rpNetCalls,     \* transaction-fetch network calls issued
    rpOutcome,      \* the response to the replay call and what the client made of it
    \* ---- detail extractor (collectDetailRecords / extractTransactionDetails) ----
    wkGraph,        \* the payload: an object graph, node 1 is the payload itself
    wkStack,        \* arguments of the calls of walk still to be made, next first
    wkVisited,      \* `visited`
    wkDetails,      \* `details`
    wkCalls,        \* calls of walk made so far
    wkPc,           \* "walking", then "returned"
    \* ---- date normalization of the one-shot fetcher ----
    dtRaw,          \* the argument `raw`, a string
    dtToday,        \* DATE_DEFAULT, the fallback date
    dtPc,           \* "call", then "returned" or "threw"
    dtResult,       \* the string returned
    \* ---- worker: one invocation of runFetchJob ----
    jobPc,          \* position of the invocation
    jobBrowser,     \* the invocation holds a session it has not yet asked to close
    jobHeaders,     \* `headers` of fetchTransactions (browser.ts)
    jobReplay,      \* replay calls issued, and whether the last returned a payload
    jobLeft,        \* records of `transactions` not yet handled by the upsert
    jobStored,      \* `stored` of upsertTransactions
    jobPending,     \* what fetchTransactions hands on once the browser is closed; missingToken:
                    \* it threw 'Failed to capture API headers'
    jobResult,      \* the WorkerResult returned
    jobCall,        \* the invocation: who started it, its number, the HTTP status answered
    \* ---- the monitor's process and its signal handlers ----
    shutdown,       \* cleanup: where it is, what browser.close() did, the exit status
    processEnv,     \* which of the required environment variables are set
    \* ---- the login sequence ----
    lgVariant,      \* which program logs in: "monitor", "oneshot" or "worker"
    lgPortal,       \* what the portal and the configuration are like
    lgPc,           \* index of the awaited step of the login sequence; 0: no login
    lgMissed,       \* the waits that timed out and were swallowed
    lgError,        \* the step whose failure the login sequence threw
    \* ---- navigation to the transaction page and header capture, event by event ----
    cpVariant,      \* which program captures: "monitor", "oneshot" or "worker"
    cpOnPage,       \* the page is on /riwayatTransaksi already when the program gets there
    cpPc,           \* where the program is: navigation, listening, the way capture ended
    cpCaptured,     \* capturedHeaders of the listener
    cpIssued,       \* the matching requests the page has issued, in order
    cpResult,       \* what capture returned
    \* ---- one cycle from login to the store, on a portal that answers ----
    runVariant,     \* which program runs the cycle: "monitor" or "worker"
    runPortal,      \* the portal: login form behind the CTA or not, the detail record it serves
    runPc,          \* the phase of the cycle
    runHeaders,     \* the captured header map
    runDetails,     \* the detail records extracted from the payload
    runNext,        \* index of the record the upsert loop is at
    runTable,       \* the rows of the transactions table
    \* ---- locators of the login form ----
    clickRun,       \* one call of clickLoginButton: page, position, tiers tried
    locateRun,      \* one lookup of a field by its label: DOM, position, result
    \* ---- clients of the shared D1 database ----
    d1,             \* the D1 database the monitor and the worker share: table, index, rows, clock
    clients,        \* the programs that use it at once: a monitor or invocations of runFetchJob
    \* ---- the request listeners of a page ----
    listenRun       \* the page's request listeners over successive header captures

storeVars == <<table, dbClock, call, log, everUpserted, lastOp>>

monVars == <<mainPc, pageUrl, loginFailed, polling, lastRun, now, timerSet, nextTick,
             latestHeaders, inv, loginCount, cyclesDone>>

replayVars == <<rpVariant, rpPc, rpCaptured, rpSent, rpNetCalls, rpOutcome>>

walkVars == <<wkGraph, wkStack, wkVisited, wkDetails, wkCalls, wkPc>>

dateVars == <<dtRaw, dtToday, dtPc, dtResult>>

jobVars == <<jobPc, jobBrowser, jobHeaders, jobReplay, jobLeft, jobStored,
             jobPending, jobResult, jobCall>>

sigVars == <<shutdown, processEnv>>

loginVars == <<lgVariant, lgPortal, lgPc, lgMissed, lgError>>

captureVars == <<cpVariant, cpOnPage, cpPc, cpCaptured, cpIssued, cpResult>>

runVars == <<runVariant, runPortal, runPc, runHeaders, runDetails, runNext, runTable>>

domVars == <<clickRun, locateRun>>

clientVars == <<d1, clients>>

listenVars == <<listenRun>>

vars == <<storeVars, monVars, replayVars, walkVars, dateVars, jobVars, sigVars, loginVars, captureVars, runVars, domVars, clientVars, listenVars>>

\* what the actions of one part leave alone: the variables of the other parts
StoreFrame == UNCHANGED <<monVars, replayVars, walkVars, dateVars, jobVars, sigVars, loginVars, captureVars, runVars, domVars, clientVars, listenVars>>
MonFrame == UNCHANGED <<storeVars, replayVars, walkVars, dateVars, jobVars, sigVars, loginVars, captureVars, runVars, domVars, clientVars, listenVars>>
ReplayFrame == UNCHANGED <<storeVars, monVars, walkVars, dateVars, jobVars, sigVars, loginVars, captureVars, runVars, domVars, clientVars, listenVars>>
WalkFrame == UNCHANGED <<storeVars, monVars, replayVars, dateVars, jobVars, sigVars, loginVars, captureVars, runVars, domVars, clientVars, listenVars>>
DateFrame == UNCHANGED <<storeVars, monVars, replayVars, walkVars, jobVars, sigVars, loginVars, captureVars, runVars, domVars, clientVars, listenVars>>
JobFrame == UNCHANGED <<storeVars, monVars, replayVars, walkVars, dateVars, sigVars, loginVars, captureVars, runVars, domVars, clientVars, listenVars>>
SigFrame == UNCHANGED <<storeVars, monVars, replayVars, walkVars, dateVars, jobVars, loginVars, captureVars, runVars, domVars, clientVars, listenVars>>
LoginFrame == UNCHANGED <<storeVars, monVars, replayVars, walkVars, dateVars, jobVars, sigVars, captureVars, runVars, domVars, clientVars, listenVars>>
CaptureFrame == UNCHANGED <<storeVars, monVars, replayVars, walkVars, dateVars, jobVars, sigVars, loginVars, runVars, domVars, clientVars, listenVars>>
RunFrame == UNCHANGED <<storeVars, monVars, replayVars, walkVars, dateVars, jobVars, sigVars, loginVars, captureVars, domVars, clientVars, listenVars>>
DomFrame == UNCHANGED <<storeVars, monVars, replayVars, walkVars, dateVars, jobVars, sigVars, loginVars, captureVars, runVars, clientVars, listenVars>>
ClientFrame == UNCHANGED <<storeVars, monVars, replayVars, walkVars, dateVars, jobVars, sigVars, loginVars, captureVars, runVars, domVars, listenVars>>
ListenFrame == UNCHANGED <<storeVars, monVars, replayVars, walkVars, dateVars, jobVars, sigVars, loginVars, captureVars, runVars, domVars, clientVars>>

-----------------------------------------------------------------------------
(* Bounds of the model *)

\* largest number of detail records in one upsert call
MaxBatch == 2
\* number of upsert calls in one behaviour
MaxCalls == 2
\* the store clock runs from 0 to MaxClock seconds
MaxClock == 1
\* the poll interval CONFIG.pollIntervalMs, in seconds (scaled down)
PollInterval == 2
\* the monitor is followed for MaxIntervals poll intervals after its start
MaxIntervals == 2
\* objects with object-valued properties in the payload handed to the detail
\* extractor
MaxNodes == 2
\* longest generated --start-date / --end-date argument, in characters
MaxDateLen == 10
\* poll invocations that can be inside the body of poll at once
MaxInv == 2
\* invocations of the worker job, one after the other
MaxJobs == 2
\* matching requests the page issues in one run of navigation and capture
MaxRequests == 2
\* siblings on either side of a label in the DOM of the login form
MaxSiblings == 2
\* header captures on one page in one behaviour
MaxCaptures == 3

-----------------------------------------------------------------------------
(* Values *)

\* SQL NULL / JS null-or-undefined in a text column or field
Null == "null"
\* SQL NULL in a REAL column
NullNum == -1

\* reference numbers the portal hands out
Reffs == {"TX1", "TX2"}
\* a detail record without a usable reference number has reffNumber "" (falsy)
ReffInputs == Reffs \cup {""}

\* detail records as the replay client hands them to the store
StoreDetails ==
    [reffNumber : ReffInputs, customerName : {"JOHN DOE", "JANE"},
     authAmountNumber : {"50000"}]

\* JS truthiness of a string-or-null field value
Truthy(v) == v # "" /\ v # Null

\* JS Number() on the values the amount fields take
Number(v) ==
    CASE v = "50000" -> 50000
      [] v = "0"     -> 0
      [] v = ""      -> 0
      [] OTHER       -> 0

\* toNumber of mapDetailToColumns / mapDetailToParams
toNumber(v) == IF v = Null \/ v = "" THEN NullNum ELSE Number(v)

\* the bound parameters of the INSERT statement (the columns the model keeps)
mapDetailToColumns(detail) ==
    [reff_number        |-> detail.reffNumber,
     customer_name      |-> detail.customerName,
     auth_amount_number |-> toNumber(detail.authAmountNumber)]

\* the row a parameter list gives, with its two timestamps
RowOf(p, created, updated) ==
    [reff_number        |-> p.reff_number,
     customer_name      |-> p.customer_name,
     auth_amount_number |-> p.auth_amount_number,
     created_at         |-> created,
     updated_at         |-> updated]

NoRow == [reff_number |-> "", customer_name |-> Null, auth_amount_number |-> NullNum,
          created_at |-> -1, updated_at |-> -1]

\* a plausible bug: a plain INSERT without the ON CONFLICT clause on a table
\* without the primary key
D1InsertOnly(t, p, ts) == t \cup {RowOf(p, ts, ts)}

\* a plausible bug: ON CONFLICT DO UPDATE that also resets created_at
D1UpsertResetCreated(t, p, ts) ==
    {r \in t : r.reff_number # p.reff_number} \cup {RowOf(p, ts, ts)}

\* INSERT INTO transactions (..., updated_at) VALUES (..., CURRENT_TIMESTAMP)
\* ON CONFLICT(reff_number) DO UPDATE SET <every column but reff_number and
\* created_at> = excluded.<column>, updated_at = CURRENT_TIMESTAMP
D1Upsert(t, p, ts) ==
    IF \E r \in t : r.reff_number = p.reff_number
    THEN {IF r.reff_number = p.reff_number
          THEN RowOf(p, r.created_at, ts)
          ELSE r : r \in t}
    ELSE t \cup {RowOf(p, ts, ts)}

\* the row stored under a reference number (NoRow if none)
RowFor(t, reff) ==
    IF \E r \in t : r.reff_number = reff
    THEN CHOOSE r \in t : r.reff_number = reff
    ELSE NoRow

-----------------------------------------------------------------------------
(* The upsert store *)

IdleCall == [state |-> "idle", variant |-> "none", n |-> 0, stored |-> 0,
             reffs |-> {}, distinct |-> TRUE, withReff |-> 0]

NoOp == [kind |-> "none", detail |-> [reffNumber |-> "", customerName |-> Null,
                                      authAmountNumber |-> Null],
         old |-> NoRow, at |-> -1]

\* the log entry of a call that threw: it returned no count
ThrownCall == [reffs |-> {}, distinct |-> FALSE, threw |-> TRUE, result |-> -1,
               withReff |-> 0]

StoreInit ==
    /\ table = {}
    /\ dbClock = 0
    /\ call = IdleCall
    /\ log = <<>>
    /\ everUpserted = {}
    /\ lastOp = NoOp

\* 1 for a record of the batch that has a reference number, 0 for one without
CountsReff(detail) == IF Truthy(detail.reffNumber) THEN 1 ELSE 0

\* a plausible bug: the loop does not skip records without a reference number
SkipsNever(detail) == FALSE

\* `if (!detail || !detail.reffNumber) continue;`
SkipsRecord(detail) == ~Truthy(detail.reffNumber)

\* a call of persistDetails (monitor) or upsertTransactions (worker) starts;
\* both callers pass a non-empty list
UpsertCall(variant) ==
    /\ call.state = "idle"
    /\ Len(log) < MaxCalls
    /\ call' = [IdleCall EXCEPT !.state = "running", !.variant = variant]
    /\ UNCHANGED <<table, dbClock, log, everUpserted, lastOp>>
    /\ StoreFrame

\* a plausible bug: the batch runs as one transaction, and a statement that
\* fails takes the rows of the records before it out of the table
UpsertIterationRollsBack(variant) ==
    /\ call.state = "running"
    /\ call.variant = variant
    /\ call.n < MaxBatch
    /\ \E detail \in StoreDetails :
         IF SkipsRecord(detail)
         THEN /\ call' = [call EXCEPT !.n = @ + 1, !.distinct = FALSE,
                                       !.withReff = @ + CountsReff(detail)]
              /\ UNCHANGED <<table, dbClock, log, everUpserted, lastOp>>
         ELSE \E ok \in BOOLEAN :
              IF ok
              THEN /\ table' = D1Upsert(table, mapDetailToColumns(detail), dbClock)
                   /\ lastOp' = [kind   |-> IF \E r \in table :
                                                r.reff_number = detail.reffNumber
                                            THEN "update" ELSE "insert",
                                 detail |-> detail,
                                 old    |-> RowFor(table, detail.reffNumber),
                                 at     |-> dbClock]
                   /\ everUpserted' = everUpserted \cup {detail.reffNumber}
                   /\ call' = [call EXCEPT
                                 !.n = @ + 1,
                                 !.stored = @ + 1,
                                 !.withReff = @ + CountsReff(detail),
                                 !.distinct = @ /\ detail.reffNumber \notin call.reffs,
                                 !.reffs = @ \cup {detail.reffNumber}]
                   /\ UNCHANGED <<dbClock, log>>
              ELSE /\ log' = Append(log, ThrownCall)
                   /\ call' = IdleCall
                   /\ table' = {r \in table : r.reff_number \notin call.reffs}
                   /\ UNCHANGED <<dbClock, everUpserted, lastOp>>
    /\ StoreFrame

\* one iteration of the loop over the batch: the next record is skipped, or its
\* statement is executed and succeeds, or the store operation throws
UpsertIteration(variant) ==
    /\ call.state = "running"
    /\ call.variant = variant
    /\ call.n < MaxBatch
    /\ \E detail \in StoreDetails :
         IF SkipsRecord(detail)
         THEN /\ call' = [call EXCEPT !.n = @ + 1, !.distinct = FALSE,
                                       !.withReff = @ + CountsReff(detail)]
              /\ UNCHANGED <<table, dbClock, log, everUpserted, lastOp>>
         ELSE \E ok \in BOOLEAN :
              IF ok
              THEN /\ table' = D1Upsert(table, mapDetailToColumns(detail), dbClock)
                   /\ lastOp' = [kind   |-> IF \E r \in table :
                                                r.reff_number = detail.reffNumber
                                            THEN "update" ELSE "insert",
                                 detail |-> detail,
                                 old    |-> RowFor(table, detail.reffNumber),
                                 at     |-> dbClock]
                   /\ everUpserted' = everUpserted \cup {detail.reffNumber}
                   /\ call' = [call EXCEPT
                                 !.n = @ + 1,
                                 !.stored = @ + 1,
                                 !.withReff = @ + CountsReff(detail),
                                 !.distinct = @ /\ detail.reffNumber \notin call.reffs,
                                 !.reffs = @ \cup {detail.reffNumber}]
                   /\ UNCHANGED <<dbClock, log>>
              ELSE /\ log' = Append(log, ThrownCall)
                   /\ call' = IdleCall
                   /\ UNCHANGED <<table, dbClock, everUpserted, lastOp>>
    /\ StoreFrame

\* the loop is over: `return stored`
UpsertReturn(variant) ==
    /\ call.state = "running"
    /\ call.variant = variant
    /\ call.n >= 1
    /\ log' = Append(log, [reffs |-> call.reffs, distinct |-> call.distinct,
                           threw |-> FALSE, result |-> call.stored,
                           withReff |-> call.withReff])
    /\ call' = IdleCall
    /\ UNCHANGED <<table, dbClock, everUpserted, lastOp>>
    /\ StoreFrame

persistDetailsCall == UpsertCall("monitor")
persistDetailsIteration == UpsertIteration("monitor")
persistDetailsReturn == UpsertReturn("monitor")

upsertTransactionsCall == UpsertCall("worker")
upsertTransactionsIteration == UpsertIteration("worker")
upsertTransactionsReturn == UpsertReturn("worker")

\* the store's clock moves on by a second
StoreTick ==
    /\ dbClock < MaxClock
    /\ dbClock' = dbClock + 1
    /\ UNCHANGED <<table, call, log, everUpserted, lastOp>>
    /\ StoreFrame

StoreNext ==
    \/ persistDetailsCall
    \/ persistDetailsIteration
    \/ persistDetailsReturn
    \/ upsertTransactionsCall
    \/ upsertTransactionsIteration
    \/ upsertTransactionsReturn
    \/ StoreTick

-----------------------------------------------------------------------------
(* Strings: a string is a sequence of characters *)

UpperCase == <<"A", "B", "D", "E", "F", "G", "H", "I", "J", "L", "N", "O", "P", "R", "S", "T", "U", "Z">>
LowerCase == <<"a", "b", "d", "e", "f", "g", "h", "i", "j", "l", "n", "o", "p", "r", "s", "t", "u", "z">>

\* String.prototype.toLowerCase, one character
LowerChar(c) ==
    IF \E k \in 1..Len(UpperCase) : UpperCase[k] = c
    THEN LowerCase[CHOOSE k \in 1..Len(UpperCase) : UpperCase[k] = c]
    ELSE c

\* String.prototype.toLowerCase
toLowerCase(str) == [k \in 1..Len(str) |-> LowerChar(str[k])]

\* String.prototype.includes
includes(str, sub) ==
    \E k \in 0..(Len(str) - Len(sub)) : SubSeq(str, k + 1, k + Len(sub)) = sub

STR_unauthorized == <<"u", "n", "a", "u", "t", "h", "o", "r", "i", "z", "e", "d">>
STR_forbidden == <<"f", "o", "r", "b", "i", "d", "d", "e", "n">>
STR_login == <<"l", "o", "g", "i", "n">>

-----------------------------------------------------------------------------
(* Errors the monitor's cycle can catch *)

\* error.status is undefined
NoStatus == -1

\* 'Timed out capturing transaction headers. ...' (captureTransactionHeaders)
MSG_CaptureTimeout == <<"T", "i", "m", "e", "d", " ", "o", "u", "t">>
\* `Transaction fetch failed: HTTP ${status} ` (fetchTransactions)
MSG_FetchFailed == <<"f", "e", "t", "c", "h", " ", "f", "a", "i", "l", "e", "d", ":", " ", "H", "T", "T", "P">>
\* 'Transaction response is not valid JSON' (fetchTransactions)
MSG_NotJson == <<"n", "o", "t", " ", "v", "a", "l", "i", "d", " ", "J", "S", "O", "N">>
\* messages of the store, of the browser and of the in-page fetch
MSG_Failed == <<"F", "a", "i", "l", "e", "d">>
MSG_D1Failed == <<"D", "1", " ", "f", "a", "i", "l", "e", "d">>
MSG_Unauthorized == <<"U", "n", "a", "u", "t", "h", "o", "r", "i", "z", "e", "d">>
MSG_FORBIDDEN == <<"F", "O", "R", "B", "I", "D", "D", "E", "N">>
MSG_PleaseLogin == <<"P", "l", "e", "a", "s", "e", " ", "L", "o", "g", "i", "n">>
MSG_LogIn == <<"L", "o", "g", " ", "i", "n">>

NoErr == [status |-> NoStatus, msg |-> <<>>]

Err(status, msg) == [status |-> status, msg |-> msg]

\* 'Failed to capture transaction request headers' (captureTransactionHeaders)
MSG_CaptureFailed == <<"F", "a", "i", "l", "e", "d", " ", "t", "o", " ", "c", "a", "p", "t", "u", "r", "e">>

\* captureTransactionHeaders throws
CaptureErrors == {Err(NoStatus, MSG_CaptureTimeout), Err(NoStatus, MSG_CaptureFailed)}

\* HTTP statuses of a transaction-fetch response that is not ok
FailStatuses == {401, 403, 500}

\* result.data when the body did not parse as JSON (data = null)
NoData == -1

\* what the in-page fetch of fetchTransactions returns: {ok, status, data, error};
\* data is the number of detail records in the parsed payload
ReplayResults ==
    {[ok |-> TRUE, status |-> 200, data |-> n, error |-> <<>>] :
        n \in {NoData} \cup (0..MaxBatch)}
      \cup {[ok |-> FALSE, status |-> st, data |-> n, error |-> <<>>] :
              st \in FailStatuses, n \in {NoData, 1}}
      \cup {[ok |-> FALSE, status |-> 0, data |-> NoData, error |-> e] :
              e \in {MSG_Failed, MSG_PleaseLogin}}

\* a plausible bug: fetchTransactions returns the data whatever the response was
fetchTransactionsNoCheck(result) == NoErr

\* what fetchTransactions throws for a result (NoErr: it returns result.data)
fetchTransactionsError(result) ==
    IF ~result.ok
    THEN Err(result.status, MSG_FetchFailed \o result.error)
    ELSE IF result.data = NoData
         THEN Err(NoStatus, MSG_NotJson)
         ELSE NoErr

\* persistDetails throws: `Cloudflare D1 query failed: ${errors}`
PersistErrors ==
    {Err(NoStatus, m) : m \in {MSG_D1Failed, MSG_Unauthorized, MSG_FORBIDDEN, MSG_LogIn}}

\* a plausible bug: every error caught by poll is taken as an authentication
\* failure
shouldReloginAnyError(error) == error # NoErr

\* a plausible bug: the status 401 is not taken as an authentication failure
shouldReloginOnly403(error) ==
    IF error = NoErr THEN FALSE
    ELSE IF error.status = 403 THEN TRUE
    ELSE LET message == toLowerCase(error.msg)
         IN  \/ includes(message, STR_unauthorized)
             \/ includes(message, STR_forbidden)
             \/ includes(message, STR_login)

\* a plausible bug: the message is searched without lower-casing it
shouldReloginCaseSensitive(error) ==
    IF error = NoErr THEN FALSE
    ELSE IF error.status = 401 \/ error.status = 403 THEN TRUE
    ELSE LET message == error.msg
         IN  \/ includes(message, STR_unauthorized)
             \/ includes(message, STR_forbidden)
             \/ includes(message, STR_login)

\* shouldRelogin(error)
shouldRelogin(error) ==
    IF error = NoErr THEN FALSE
    ELSE IF error.status = 401 \/ error.status = 403 THEN TRUE
    ELSE \E message \in {toLowerCase(error.msg)} :
             \/ includes(message, STR_unauthorized)
             \/ includes(message, STR_forbidden)
             \/ includes(message, STR_login)

-----------------------------------------------------------------------------
(* The monitor: main() and poll() of watch_transactions.js *)

\* a header set is the set of the header names it gives a non-empty value
HdrFull == {"secret-id", "secret-key", "secret-token", "session-item", "accept"}
\* latestHeaders before the first capture
NoHeaders == {"<none>"}
\* what request.headers() of the portal's own call can hold
CapturedSets == {HdrFull, HdrFull \ {"secret-token"}, HdrFull \ {"secret-key"}}

Inv == 1..MaxInv

\* fetchAndStore has logged no `Upserted ${stored}` line
NoCount == -1

IdleInv == [pc |-> "idle", err |-> NoErr, left |-> 0, replayIssued |-> 0,
            replayOk |-> FALSE, writes |-> 0, logins |-> 0, captures |-> 0,
            recaptured |-> FALSE, reported |-> NoCount]

\* Date.now() when main starts: far more than one interval after the epoch
StartNow == PollInterval

MonInit ==
    /\ mainPc = "validateEnv"
    /\ pageUrl = "blank"
    /\ loginFailed = FALSE
    /\ polling = FALSE
    /\ lastRun = 0
    /\ now = StartNow
    /\ timerSet = FALSE
    /\ nextTick = 0
    /\ latestHeaders = NoHeaders
    /\ inv = [i \in Inv |-> IdleInv]
    /\ loginCount = 0
    /\ cyclesDone = 0

\* the monitor is not part of the behaviour
MonIdle ==
    /\ mainPc = "off"
    /\ pageUrl = "blank"
    /\ loginFailed = FALSE
    /\ polling = FALSE
    /\ lastRun = 0
    /\ now = 0
    /\ timerSet = FALSE
    /\ nextTick = 0
    /\ latestHeaders = NoHeaders
    /\ inv = [i \in Inv |-> IdleInv]
    /\ loginCount = 0
    /\ cyclesDone = 0

\* main().catch: process.exit(1)
Fatal ==
    /\ mainPc' = "fatal"
    /\ UNCHANGED <<pageUrl, loginFailed, polling, lastRun, now, timerSet, nextTick, latestHeaders,
                   inv, loginCount, cyclesDone>>

\* the environment of the process: are MANDIRI_USERNAME, MANDIRI_PASSWORD and
\* the three Cloudflare D1 variables set
Envs == [username : BOOLEAN, password : BOOLEAN, cloudflare : BOOLEAN]
FullEnv == [username |-> TRUE, password |-> TRUE, cloudflare |-> TRUE]

\* a plausible bug: validateEnv does not look at the password
validateEnvNoPassword(env) == env.username /\ env.cloudflare

\* validateEnv returns (TRUE) or throws (FALSE)
validateEnv(env) == env.username /\ env.password /\ env.cloudflare

\* validateEnv(): the credentials are there, or main throws
MainValidateEnv ==
    /\ mainPc = "validateEnv"
    /\ IF validateEnv(processEnv)
       THEN /\ mainPc' = "launch"
            /\ UNCHANGED <<pageUrl, loginFailed, polling, lastRun, now, timerSet, nextTick,
                           latestHeaders, inv, loginCount, cyclesDone>>
       ELSE Fatal
    /\ MonFrame

\* puppeteer.launch
MainLaunch ==
    /\ mainPc = "launch"
    /\ \E ok \in BOOLEAN :
         IF ok
         THEN /\ mainPc' = "pages"
              /\ UNCHANGED <<pageUrl, loginFailed, polling, lastRun, now, timerSet, nextTick,
                             latestHeaders, inv, loginCount,
                             cyclesDone>>
         ELSE Fatal
    /\ MonFrame

\* browser.pages and page.setUserAgent are awaited, then cleanup is registered
\* for SIGINT and SIGTERM and ensureLogin(page) starts
MainPages ==
    /\ mainPc = "pages"
    /\ \E ok \in BOOLEAN :
         IF ok
         THEN /\ mainPc' = "login"
              /\ UNCHANGED <<pageUrl, loginFailed, polling, lastRun, now, timerSet, nextTick,
                             latestHeaders, inv, loginCount,
                             cyclesDone>>
         ELSE Fatal
    /\ MonFrame

\* `if (!force && page.url().includes('/homeScreen')) return;`
LoginSkipped(force, url) == ~force /\ url = "home"

\* where the tab can be after the login sequence has run to its end
AfterLoginUrls == {"home", "tx", "login"}

\* ensureLogin(page) of the bootstrap: the sequence runs to its end, or throws
MainLogin ==
    /\ mainPc = "login"
    /\ IF LoginSkipped(FALSE, pageUrl)
       THEN /\ mainPc' = "nav"
            /\ UNCHANGED <<pageUrl, loginFailed, polling, lastRun, now, timerSet, nextTick,
                           latestHeaders, inv, loginCount,
                           cyclesDone>>
       ELSE \E ok \in BOOLEAN :
            /\ loginCount' = loginCount + 1
            /\ IF ok
               THEN /\ mainPc' = "nav"
                    /\ \E u \in AfterLoginUrls : pageUrl' = u
               ELSE /\ mainPc' = "fatal"
                    /\ pageUrl' = "login"
            /\ UNCHANGED <<loginFailed, polling, lastRun, now, timerSet, nextTick,
                           latestHeaders, inv, cyclesDone>>
    /\ MonFrame

\* `if (page.url().includes('/riwayatTransaksi')) return;`
OnTransactionsPage(url) == url = "tx"

\* ensureTransactionsPage(page) of the bootstrap
MainNav ==
    /\ mainPc = "nav"
    /\ IF OnTransactionsPage(pageUrl)
       THEN /\ mainPc' = "schema"
            /\ UNCHANGED <<pageUrl, loginFailed, polling, lastRun, now, timerSet, nextTick,
                           latestHeaders, inv, loginCount,
                           cyclesDone>>
       ELSE \E ok \in BOOLEAN :
            /\ IF ok
               THEN /\ mainPc' = "schema"
                    /\ \E u \in {"tx", "login"} : pageUrl' = u
               ELSE /\ mainPc' = "fatal"
                    /\ UNCHANGED pageUrl
            /\ UNCHANGED <<loginFailed, polling, lastRun, now, timerSet, nextTick,
                           latestHeaders, inv, loginCount, cyclesDone>>
    /\ MonFrame

\* ensureSchema(); then captureTransactionHeaders(page) starts
MainSchema ==
    /\ mainPc = "schema"
    /\ \E ok \in BOOLEAN :
         IF ok
         THEN /\ mainPc' = "capture"
              /\ UNCHANGED <<pageUrl, loginFailed, polling, lastRun, now, timerSet, nextTick,
                             latestHeaders, inv, loginCount,
                             cyclesDone>>
         ELSE Fatal
    /\ MonFrame

\* `let latestHeaders = await captureTransactionHeaders(page)`
MainCapture ==
    /\ mainPc = "capture"
    /\ \/ \E h \in CapturedSets :
            /\ latestHeaders' = h
            /\ mainPc' = "poll"
            /\ UNCHANGED <<pageUrl, loginFailed, polling, lastRun, now, timerSet, nextTick, inv,
                           loginCount, cyclesDone>>
       \/ Fatal
    /\ MonFrame

\* a plausible bug: refreshHeadersIfNeeded tests only that there are headers
HasTokenAnyHeaders(h) == h # NoHeaders

\* `headers && headers['secret-token']` of refreshHeadersIfNeeded
HasToken(h) == h # NoHeaders /\ "secret-token" \in h

\* a plausible bug: only the elapsed-time debounce guards the body of poll
PollGuardNoFlag == ~(now - lastRun < PollInterval - 1)

\* a plausible bug: poll has no debounce test
PollGuardNoDebounce == ~polling

\* poll passes `if (polling) return;` and
\* `if (now - lastRun < CONFIG.pollIntervalMs - 1000) return;`
PollGuard == ~polling /\ ~(now - lastRun < PollInterval - 1)

\* poll enters its body as invocation i: polling = true, lastRun = now, and
\* refreshHeadersIfNeeded either hands back the headers, so that fetchAndStore
\* issues the replay call, or starts a header capture
PollEnter(i) ==
    /\ inv[i].pc = "idle"
    /\ \A j \in Inv : j < i => inv[j].pc # "idle"
    /\ polling' = TRUE
    /\ lastRun' = now
    /\ inv' = [inv EXCEPT ![i] =
                 IF HasToken(latestHeaders)
                 THEN [IdleInv EXCEPT !.pc = "replay", !.replayIssued = 1]
                 ELSE [IdleInv EXCEPT !.pc = "refresh"]]

\* a plausible bug: main calls poll() without awaiting it
MainPollNoAwait ==
    /\ mainPc = "poll"
    /\ IF PollGuard
       THEN \E i \in Inv : PollEnter(i)
       ELSE UNCHANGED <<polling, lastRun, inv>>
    /\ mainPc' = "setInterval"
    /\ UNCHANGED <<pageUrl, loginFailed, now, timerSet, nextTick, latestHeaders, loginCount, cyclesDone>>
    /\ MonFrame

\* `await poll()` of main
MainPoll ==
    /\ mainPc = "poll"
    /\ IF PollGuard
       THEN /\ \E i \in Inv : PollEnter(i)
            /\ mainPc' = "awaitPoll"
       ELSE /\ mainPc' = "setInterval"
            /\ UNCHANGED <<polling, lastRun, inv>>
    /\ UNCHANGED <<pageUrl, loginFailed, now, timerSet, nextTick, latestHeaders, loginCount, cyclesDone>>
    /\ MonFrame

\* `setInterval(poll, CONFIG.pollIntervalMs)` of main
MainSetInterval ==
    /\ mainPc = "setInterval"
    /\ mainPc' = "scheduled"
    /\ timerSet' = TRUE
    /\ nextTick' = now + PollInterval
    /\ UNCHANGED <<pageUrl, loginFailed, polling, lastRun, now, latestHeaders, inv, loginCount, cyclesDone>>
    /\ MonFrame

\* the interval timer fires and calls poll
TimerTick ==
    /\ timerSet
    /\ now >= nextTick
    /\ nextTick' = now + PollInterval
    /\ IF PollGuard
       THEN \E i \in Inv : PollEnter(i)
       ELSE UNCHANGED <<polling, lastRun, inv>>
    /\ UNCHANGED <<mainPc, pageUrl, loginFailed, now, timerSet, latestHeaders, loginCount, cyclesDone>>
    /\ MonFrame

\* time passes
Advance ==
    /\ mainPc \notin {"off", "fatal"}
    /\ now < StartNow + MaxIntervals * PollInterval
    /\ now' = now + 1
    /\ UNCHANGED <<mainPc, pageUrl, loginFailed, polling, lastRun, timerSet, nextTick,
                   latestHeaders, inv, loginCount, cyclesDone>>
    /\ MonFrame

\* the system clock that Date.now() reads is set back while the timer waits:
\* the timer runs on the monotonic clock, so its due time moves along
ClockStepBack ==
    /\ timerSet
    /\ ~polling
    /\ now >= lastRun
    /\ now > 0
    /\ nextTick > now
    /\ now' = now - 1
    /\ nextTick' = nextTick - 1
    /\ UNCHANGED <<mainPc, pageUrl, loginFailed, polling, lastRun, timerSet, latestHeaders,
                   inv, loginCount, cyclesDone>>
    /\ MonFrame

\* a plausible bug: a failure leaves poll without passing its finally block
FinishOnlyOnSuccess(i, rec) ==
    inv' = [inv EXCEPT ![i] =
              [rec EXCEPT !.pc = IF rec.err = NoErr THEN "finally" ELSE "rejected",
                          !.left = 0]]

\* the try block or the catch block of poll is left: the finally block is next
Finish(i, rec) ==
    inv' = [inv EXCEPT ![i] = [rec EXCEPT !.pc = "finally", !.left = 0]]

\* a plausible bug: the catch block forces a login whatever the error is
CatchAlwaysRelogin(i, rec, e) ==
    /\ inv' = [inv EXCEPT ![i] = [rec EXCEPT !.pc = "relogin", !.err = e,
                                             !.logins = @ + 1]]
    /\ loginCount' = loginCount + 1

\* the catch block of poll: an authentication failure starts
\* ensureLogin(page, {force: true}); any other error goes to the finally block
Catch(i, rec, e) ==
    IF shouldRelogin(e)
    THEN /\ inv' = [inv EXCEPT ![i] = [rec EXCEPT !.pc = "relogin", !.err = e,
                                                  !.logins = @ + 1]]
         /\ loginCount' = loginCount + 1
    ELSE /\ Finish(i, [rec EXCEPT !.err = e])
         /\ UNCHANGED loginCount

\* a plausible bug: a capture that failed is ignored and the cycle goes on to
\* replay the header set it had
CycleRefreshIgnoresFailure(i) ==
    /\ inv[i].pc = "refresh"
    /\ \/ \E h \in CapturedSets :
            /\ latestHeaders' = h
            /\ inv' = [inv EXCEPT ![i] = [@ EXCEPT !.pc = "replay",
                                                   !.captures = @ + 1,
                                                   !.replayIssued = @ + 1]]
       \/ \E e \in CaptureErrors :
            /\ inv' = [inv EXCEPT ![i] = [@ EXCEPT !.pc = "replay", !.err = e,
                                                   !.replayIssued = @ + 1]]
            /\ UNCHANGED latestHeaders
    /\ UNCHANGED <<mainPc, pageUrl, loginFailed, polling, lastRun, now, timerSet, nextTick,
                   cyclesDone, loginCount>>
    /\ MonFrame

\* the capture started by refreshHeadersIfNeeded ends: the headers are handed
\* to fetchAndStore, which issues the replay call, or the capture throws
CycleRefresh(i) ==
    /\ inv[i].pc = "refresh"
    /\ \/ \E h \in CapturedSets :
            /\ latestHeaders' = h
            /\ inv' = [inv EXCEPT ![i] = [@ EXCEPT !.pc = "replay",
                                                   !.captures = @ + 1,
                                                   !.replayIssued = @ + 1]]
            /\ UNCHANGED loginCount
       \/ \E e \in CaptureErrors :
            /\ Catch(i, inv[i], e)
            /\ UNCHANGED latestHeaders
    /\ UNCHANGED <<mainPc, pageUrl, loginFailed, polling, lastRun, now, timerSet, nextTick,
                   cyclesDone>>
    /\ MonFrame

\* the replay call of fetchTransactions ends; with detail records in the
\* payload persistDetails starts, with none fetchAndStore returns
CycleReplay(i) ==
    /\ inv[i].pc = "replay"
    /\ \E result \in ReplayResults :
         LET e   == fetchTransactionsError(result)
             rec == [inv[i] EXCEPT !.replayOk = result.ok /\ result.data # NoData]
         IN  IF e # NoErr
             THEN Catch(i, rec, e)
             ELSE /\ IF result.data > 0
                     THEN inv' = [inv EXCEPT ![i] =
                                    [rec EXCEPT !.pc = "persist", !.left = result.data]]
                     ELSE Finish(i, rec)
                  /\ UNCHANGED loginCount
    /\ UNCHANGED <<mainPc, pageUrl, loginFailed, polling, lastRun, now, timerSet, nextTick,
                   latestHeaders, cyclesDone>>
    /\ MonFrame

\* a plausible bug: persistDetails hands back the count reached when
\* executeD1 throws
CyclePersistPartialCredit(i) ==
    /\ inv[i].pc = "persist"
    /\ \/ \E written \in 0..1 :
            LET rec == [inv[i] EXCEPT !.left = @ - 1, !.writes = @ + written]
            IN  /\ IF rec.left = 0
                   THEN Finish(i, [rec EXCEPT !.reported = rec.writes])
                   ELSE inv' = [inv EXCEPT ![i] = rec]
                /\ UNCHANGED loginCount
       \/ \E e \in PersistErrors :
            Catch(i, [inv[i] EXCEPT !.reported = inv[i].writes], e)
    /\ UNCHANGED <<mainPc, pageUrl, loginFailed, polling, lastRun, now, timerSet, nextTick,
                   latestHeaders, cyclesDone>>
    /\ MonFrame

\* one iteration of the loop of persistDetails: the record is skipped, or its
\* statement is executed, or executeD1 throws; after the last record
\* fetchAndStore logs the count that persistDetails returned
CyclePersist(i) ==
    /\ inv[i].pc = "persist"
    /\ \/ \E written \in 0..1 :
            LET rec == [inv[i] EXCEPT !.left = @ - 1, !.writes = @ + written]
            IN  /\ IF rec.left = 0
                   THEN Finish(i, [rec EXCEPT !.reported = rec.writes])
                   ELSE inv' = [inv EXCEPT ![i] = rec]
                /\ UNCHANGED loginCount
       \/ \E e \in PersistErrors : Catch(i, inv[i], e)
    /\ UNCHANGED <<mainPc, pageUrl, loginFailed, polling, lastRun, now, timerSet, nextTick,
                   latestHeaders, cyclesDone>>
    /\ MonFrame

\* a plausible bug: a forced login that threw is tried once more in the same
\* cycle
CycleReloginRetries(i) ==
    /\ inv[i].pc = "relogin"
    /\ \/ \E u \in AfterLoginUrls :
            /\ pageUrl' = u
            /\ loginFailed' = FALSE
            /\ inv' = [inv EXCEPT ![i] =
                         [@ EXCEPT !.pc = IF OnTransactionsPage(u)
                                          THEN "recapture" ELSE "renav"]]
            /\ UNCHANGED loginCount
       \/ /\ IF inv[i].logins < 2
                THEN /\ inv' = [inv EXCEPT ![i] = [@ EXCEPT !.logins = @ + 1]]
                     /\ loginCount' = loginCount + 1
                ELSE /\ Finish(i, inv[i])
                     /\ UNCHANGED loginCount
          /\ pageUrl' = "login"
          /\ loginFailed' = TRUE
    /\ UNCHANGED <<mainPc, polling, lastRun, now, timerSet, nextTick, latestHeaders,
                   cyclesDone>>
    /\ MonFrame

\* the forced ensureLogin ends: ensureTransactionsPage navigates, or returns at
\* once and captureTransactionHeaders starts; a throw is caught and logged
CycleRelogin(i) ==
    /\ inv[i].pc = "relogin"
    /\ \/ \E u \in AfterLoginUrls :
            /\ pageUrl' = u
            /\ loginFailed' = FALSE
            /\ inv' = [inv EXCEPT ![i] =
                         [@ EXCEPT !.pc = IF OnTransactionsPage(u)
                                          THEN "recapture" ELSE "renav"]]
       \/ /\ Finish(i, inv[i])
          /\ pageUrl' = "login"
          /\ loginFailed' = TRUE
    /\ UNCHANGED <<mainPc, polling, lastRun, now, timerSet, nextTick, latestHeaders,
                   loginCount, cyclesDone>>
    /\ MonFrame

\* the page.goto of ensureTransactionsPage ends; captureTransactionHeaders starts
CycleRenav(i) ==
    /\ inv[i].pc = "renav"
    /\ \/ /\ \E u \in {"tx", "login"} : pageUrl' = u
          /\ inv' = [inv EXCEPT ![i] = [@ EXCEPT !.pc = "recapture"]]
       \/ /\ Finish(i, inv[i])
          /\ UNCHANGED pageUrl
    /\ UNCHANGED <<mainPc, loginFailed, polling, lastRun, now, timerSet, nextTick,
                   latestHeaders, loginCount, cyclesDone>>
    /\ MonFrame

\* the capture after the forced login ends: latestHeaders is replaced, or the
\* throw is caught and logged
CycleRecapture(i) ==
    /\ inv[i].pc = "recapture"
    /\ \/ \E h \in CapturedSets :
            /\ latestHeaders' = h
            /\ Finish(i, [inv[i] EXCEPT !.captures = @ + 1, !.recaptured = TRUE])
       \/ /\ Finish(i, inv[i])
          /\ UNCHANGED latestHeaders
    /\ UNCHANGED <<mainPc, pageUrl, loginFailed, polling, lastRun, now, timerSet, nextTick,
                   loginCount, cyclesDone>>
    /\ MonFrame

\* a plausible bug: the flag is reset at the end of the try block instead of
\* in a finally block, so a cycle that failed leaves it set
CycleFinallyAfterSuccess(i) ==
    /\ inv[i].pc = "finally"
    /\ polling' = (inv[i].err # NoErr)
    /\ inv' = [inv EXCEPT ![i] = IdleInv]
    /\ cyclesDone' = cyclesDone + 1
    /\ mainPc' = IF mainPc = "awaitPoll" THEN "setInterval" ELSE mainPc
    /\ UNCHANGED <<pageUrl, loginFailed, lastRun, now, timerSet, nextTick, latestHeaders,
                   loginCount>>
    /\ MonFrame

\* the finally block of poll: polling = false; poll's promise resolves, and a
\* main that awaits it goes on to setInterval
CycleFinally(i) ==
    /\ inv[i].pc = "finally"
    /\ polling' = FALSE
    /\ inv' = [inv EXCEPT ![i] = IdleInv]
    /\ cyclesDone' = cyclesDone + 1
    /\ mainPc' = IF mainPc = "awaitPoll" THEN "setInterval" ELSE mainPc
    /\ UNCHANGED <<pageUrl, loginFailed, lastRun, now, timerSet, nextTick, latestHeaders,
                   loginCount>>
    /\ MonFrame

MonNext ==
    \/ MainValidateEnv
    \/ MainLaunch
    \/ MainPages
    \/ MainLogin
    \/ MainNav
    \/ MainSchema
    \/ MainCapture
    \/ MainPoll
    \/ MainSetInterval
    \/ TimerTick
    \/ Advance
    \/ \E i \in Inv : CycleRefresh(i)
    \/ \E i \in Inv : CycleReplay(i)
    \/ \E i \in Inv : CyclePersist(i)
    \/ \E i \in Inv : CycleRelogin(i)
    \/ \E i \in Inv : CycleRenav(i)
    \/ \E i \in Inv : CycleRecapture(i)
    \/ \E i \in Inv : CycleFinally(i)

-----------------------------------------------------------------------------
(* Capture and replay of the portal's API headers, in the three variants:
   the monitor (watch_transactions.js), the one-shot fetcher and the worker *)

Variants == {"monitor", "oneshot", "worker"}

\* names request.headers() can hold (puppeteer gives them in lower case);
\* referer is not on the one-shot fetcher's list, user-agent is on no list
HeaderNames == {"secret-id", "secret-key", "secret-token", "accept", "referer",
                "user-agent"}
SecretNames == {"secret-id", "secret-key", "secret-token"}

\* a header map gives each name its value; Null says the name is absent
HeaderValues == {Null, "", "v"}
HeaderMaps ==
    {h \in [HeaderNames -> HeaderValues] :
        \A k \in HeaderNames \ SecretNames : h[k] # ""}
NoHeaderMap == [k \in HeaderNames |-> Null]

\* a plausible bug: the replay sends the captured map as it is
filterHeadersKeepsAll(headers) == headers

\* the monitor's filterHeaders: the names on its list, whatever the value
filterHeaders(headers) ==
    [k \in HeaderNames |->
        IF k \in {"secret-id", "secret-key", "secret-token", "session-item",
                  "accept", "accept-language", "referer"}
        THEN headers[k] ELSE Null]

\* the worker's filterHeaders: the names on its list with a truthy value
filterHeadersWorker(headers) ==
    [k \in HeaderNames |->
        IF k \in {"secret-id", "secret-key", "secret-token", "session-item",
                  "accept", "accept-language", "referer"} /\ Truthy(headers[k])
        THEN headers[k] ELSE Null]

\* the one-shot fetcher's whitelistedHeaders(headerMap, keys)
whitelistedHeaders(headerMap, keys) ==
    [k \in HeaderNames |->
        IF k \in keys /\ Truthy(headerMap[k]) THEN headerMap[k] ELSE Null]

\* text.slice(0, 5000) of the monitor and text.slice(0, 200) of the one-shot
\* fetcher: the longest body text an error carries
BodyLimit == 5000
BodyLimitOneShot == 200

\* an error that carries no body text
NoBody == -1

\* the response to the in-page fetch: status 0 says fetch itself rejected; json
\* says how the body parses ("none": not JSON, "falsy": JSON null, 0, false or "",
\* "object": a JSON object); len is the length of the body text
BodyLengths == {0, 1, BodyLimitOneShot, BodyLimitOneShot + 1, BodyLimit, BodyLimit + 1}
Responses ==
    {r \in [status : {0, 200} \cup FailStatuses, json : {"none", "falsy", "object"},
            len : BodyLengths] :
        /\ r.status = 0 => r.json = "none" /\ r.len = 0
        /\ r.json # "none" => r.len > 0}

Min(a, b) == IF a < b THEN a ELSE b

\* what fetchTransactions of the monitor makes of a response: the in-page
\* function returns {ok, status, data, text}, and the error thrown for it gets
\* status and body
OutcomeMonitor(response) ==
    LET result == IF response.status = 0
                  THEN [ok |-> FALSE, status |-> 0, data |-> NoData, error |-> MSG_Failed]
                  ELSE [ok |-> response.status = 200, status |-> response.status,
                        data |-> IF response.json = "object" THEN 1 ELSE NoData,
                        error |-> <<>>]
        err == fetchTransactionsError(result)
    IN  [response |-> response,
         kind |-> IF err = NoErr THEN "records"
                  ELSE IF err.msg = MSG_NotJson THEN "notJson" ELSE "api",
         status |-> err.status,
         body |-> IF ~result.ok /\ response.status # 0
                  THEN Min(response.len, BodyLimit) ELSE NoBody,
         relogin |-> err # NoErr /\ shouldRelogin(err)]

\* what fetchTransactionsFromPage of the one-shot fetcher makes of it: the
\* in-page function throws `Transaction API returned ${status}: ${text.slice(0, 200)}`
\* when the response is not ok, and response.json() rejects on a body that is
\* not JSON
OutcomeOneShot(response) ==
    [response |-> response,
     kind |-> IF response.status = 0 THEN "failed"
              ELSE IF response.status # 200 THEN "api"
              ELSE IF response.json = "none" THEN "failed" ELSE "records",
     status |-> IF response.status \notin {0, 200} THEN response.status ELSE NoStatus,
     body |-> IF response.status \notin {0, 200}
              THEN Min(response.len, BodyLimitOneShot) ELSE NoBody,
     relogin |-> FALSE]

\* what fetchTransactionData of the worker makes of it: response.json() is
\* awaited inside the try whatever the status, so a body that is not JSON ends
\* in the catch as {ok: false, status: 0, error}; the error thrown is
\* `API request failed: ${result.status} ${result.error || ""}`
OutcomeWorker(response) ==
    LET result == IF response.status = 0 \/ response.json = "none"
                  THEN [ok |-> FALSE, status |-> 0]
                  ELSE [ok |-> response.status = 200, status |-> response.status]
    IN  [response |-> response,
         kind |-> IF result.ok THEN "records" ELSE "api",
         status |-> IF result.ok THEN NoStatus ELSE result.status,
         body |-> NoBody,
         relogin |-> FALSE]

ReplayOutcome(variant, response) ==
    CASE variant = "monitor" -> OutcomeMonitor(response)
      [] variant = "oneshot" -> OutcomeOneShot(response)
      [] variant = "worker" -> OutcomeWorker(response)

NoOutcome ==
    [response |-> [status |-> 0, json |-> "none", len |-> 0], kind |-> "none",
     status |-> NoStatus, body |-> NoBody, relogin |-> FALSE]

ReplayInit ==
    /\ rpVariant \in Variants
    /\ rpPc = "capture"
    /\ rpCaptured = NoHeaderMap
    /\ rpSent = NoHeaderMap
    /\ rpNetCalls = 0
    /\ rpOutcome = NoOutcome

ReplayIdle ==
    /\ rpVariant = "none"
    /\ rpPc = "off"
    /\ rpCaptured = <<>>
    /\ rpSent = <<>>
    /\ rpNetCalls = 0
    /\ rpOutcome = <<>>

\* captureTransactionHeaders of the monitor and of the one-shot fetcher: it
\* throws when the portal's call is not seen in time, and returns whatever
\* request.headers() held otherwise
captureTransactionHeaders ==
    /\ rpVariant \in {"monitor", "oneshot"}
    /\ rpPc = "capture"
    /\ \/ \E h \in HeaderMaps :
            /\ rpCaptured' = h
            /\ rpPc' = "replay"
       \/ /\ rpPc' = "threw"
          /\ UNCHANGED rpCaptured
    /\ UNCHANGED <<rpVariant, rpSent, rpNetCalls, rpOutcome>>
    /\ ReplayFrame

\* captureApiHeaders of the worker: it throws also when the captured map has
\* no truthy secret-token
captureApiHeaders ==
    /\ rpVariant = "worker"
    /\ rpPc = "capture"
    /\ \/ \E h \in HeaderMaps :
            /\ rpCaptured' = h
            /\ rpPc' = IF ~Truthy(h["secret-token"]) THEN "threw" ELSE "replay"
       \/ /\ rpPc' = "threw"
          /\ UNCHANGED rpCaptured
    /\ UNCHANGED <<rpVariant, rpSent, rpNetCalls, rpOutcome>>
    /\ ReplayFrame

\* the one-shot fetcher tests the filtered map before page.evaluate
RequiredSecretsMissing(filteredHeaders) ==
    ~Truthy(filteredHeaders["secret-id"]) \/ ~Truthy(filteredHeaders["secret-key"])

\* fetchTransactionsFromPage of the one-shot fetcher, up to the in-page fetch
fetchTransactionsFromPage ==
    /\ rpVariant = "oneshot"
    /\ rpPc = "replay"
    /\ LET filteredHeaders ==
              whitelistedHeaders(rpCaptured, {"secret-id", "secret-key",
                                              "secret-token", "session-item", "accept"})
       IN  IF RequiredSecretsMissing(filteredHeaders)
           THEN /\ rpPc' = "threw"
                /\ UNCHANGED <<rpSent, rpNetCalls>>
           ELSE /\ rpPc' = "fetching"
                /\ rpSent' = filteredHeaders
                /\ rpNetCalls' = rpNetCalls + 1
    /\ UNCHANGED <<rpVariant, rpCaptured, rpOutcome>>
    /\ ReplayFrame

\* fetchTransactions of the monitor, up to the in-page fetch
fetchTransactions ==
    /\ rpVariant = "monitor"
    /\ rpPc = "replay"
    /\ rpPc' = "fetching"
    /\ rpSent' = filterHeaders(rpCaptured)
    /\ rpNetCalls' = rpNetCalls + 1
    /\ UNCHANGED <<rpVariant, rpCaptured, rpOutcome>>
    /\ ReplayFrame

\* fetchTransactionData of the worker, up to the in-page fetch
fetchTransactionData ==
    /\ rpVariant = "worker"
    /\ rpPc = "replay"
    /\ rpPc' = "fetching"
    /\ rpSent' = filterHeadersWorker(rpCaptured)
    /\ rpNetCalls' = rpNetCalls + 1
    /\ UNCHANGED <<rpVariant, rpCaptured, rpOutcome>>
    /\ ReplayFrame

\* the in-page fetch ends: the client maps the response to what it returns or
\* throws
ReplayResponse ==
    /\ rpPc = "fetching"
    /\ \E response \in Responses :
          /\ rpOutcome' = ReplayOutcome(rpVariant, response)
          /\ rpPc' = IF rpOutcome'.kind = "records" THEN "returned" ELSE "threw"
    /\ UNCHANGED <<rpVariant, rpCaptured, rpSent, rpNetCalls>>
    /\ ReplayFrame

ReplayNext ==
    \/ captureTransactionHeaders
    \/ captureApiHeaders
    \/ fetchTransactionsFromPage
    \/ fetchTransactions
    \/ fetchTransactionData
    \/ ReplayResponse

-----------------------------------------------------------------------------
(* The detail extractor: collectDetailRecords of the monitor and
   extractTransactionDetails of the worker (the same code) *)

Nodes == 1..MaxNodes
\* an object all of whose property values are primitives, as a detail record is
Leaf == MaxNodes + 1
Objects == Nodes \cup {Leaf}
\* a property value that is not an object (a primitive, null, or no such key)
NoRef == 0
Refs == Objects \cup {NoRef}

\* an object of Nodes has a `detail` property and one other property, in that
\* order of insertion; each holds an object of the graph or a value that is
\* no object
Graphs == [Nodes -> [detail : Refs, next : Refs]]

\* node.detail
DetailOf(graph, node) == IF node = Leaf THEN NoRef ELSE graph[node].detail

\* the object-valued and null entries of Object.values(node)
ObjectValues(graph, node) ==
    IF node = Leaf THEN <<>> ELSE <<graph[node].detail, graph[node].next>>

WalkInit ==
    /\ wkGraph \in Graphs
    /\ wkStack = <<1>>
    /\ wkVisited = {}
    /\ wkDetails = <<>>
    /\ wkCalls = 0
    /\ wkPc = "walking"

WalkIdle ==
    /\ wkGraph = <<>>
    /\ wkStack = <<>>
    /\ wkVisited = {}
    /\ wkDetails = <<>>
    /\ wkCalls = 0
    /\ wkPc = "off"

\* a walk that pushes node.detail without testing it
PushesDetailUntested(graph, node) == TRUE

\* node.detail && typeof node.detail === 'object'
PushesDetail(graph, node) == DetailOf(graph, node) # NoRef

\* one call walk(node): it returns at once for a value that is no object and
\* for an object already in visited; otherwise it adds the object to visited,
\* pushes its detail object and calls walk on each of its property values
walk ==
    /\ wkPc = "walking"
    /\ wkStack # <<>>
    /\ LET node == Head(wkStack)
       IN  /\ wkCalls' = wkCalls + 1
           /\ IF node = NoRef \/ node \in wkVisited
              THEN /\ wkStack' = Tail(wkStack)
                   /\ UNCHANGED <<wkVisited, wkDetails>>
              ELSE /\ wkVisited' = wkVisited \cup {node}
                   /\ wkDetails' = IF PushesDetail(wkGraph, node)
                                   THEN Append(wkDetails, DetailOf(wkGraph, node))
                                   ELSE wkDetails
                   /\ wkStack' = ObjectValues(wkGraph, node) \o Tail(wkStack)
    /\ UNCHANGED <<wkGraph, wkPc>>
    /\ WalkFrame

\* walk(payload) has returned: collectDetailRecords returns details
collectDetailRecords ==
    /\ wkPc = "walking"
    /\ wkStack = <<>>
    /\ wkPc' = "returned"
    /\ UNCHANGED <<wkGraph, wkStack, wkVisited, wkDetails, wkCalls>>
    /\ WalkFrame

WalkNext ==
    \/ walk
    \/ collectDetailRecords

-----------------------------------------------------------------------------
(* Date normalization: normalizeDateInput and formatDate of the one-shot
   fetcher *)

Digits == {"0", "1", "2", "3", "4", "5", "6", "7", "8", "9"}

\* the characters the generated arguments are made of: a digit, the hyphen
\* and a character that is neither
DateAlphabet == {"2", "-", "x"}

DATE_20251126_Hyphens == <<"2", "0", "2", "5", "-", "1", "1", "-", "2", "6">>
DATE_20251126_Compact == <<"2", "0", "2", "5", "1", "1", "2", "6">>
DATE_DayFirst == <<"2", "5", "-", "1", "1", "-", "2", "0", "2", "6">>

\* the arguments normalizeDateInput is called with; <<>> is the empty string
DateInputs ==
    {DATE_20251126_Hyphens, DATE_20251126_Compact, DATE_DayFirst}
       \cup UNION {[1..n -> DateAlphabet] : n \in 0..MaxDateLen}

\* the values of DATE_DEFAULT = new Date()
Dates == {[yyyy |-> 2025, mm |-> 11, dd |-> 26], [yyyy |-> 2026, mm |-> 1, dd |-> 5]}

DigitChar(d) ==
    CASE d = 0 -> "0" [] d = 1 -> "1" [] d = 2 -> "2" [] d = 3 -> "3" [] d = 4 -> "4"
      [] d = 5 -> "5" [] d = 6 -> "6" [] d = 7 -> "7" [] d = 8 -> "8" [] d = 9 -> "9"

\* String(n) for a natural number
RECURSIVE String(_)
String(n) == IF n < 10 THEN <<DigitChar(n)>> ELSE String(n \div 10) \o <<DigitChar(n % 10)>>

\* str.padStart(2, '0')
padStart2(str) == IF Len(str) < 2 THEN <<"0">> \o str ELSE str

\* formatDate(inputDate): `${yyyy}${mm}${dd}`
formatDate(inputDate) ==
    String(inputDate.yyyy) \o padStart2(String(inputDate.mm)) \o padStart2(String(inputDate.dd))

\* raw.replace(/-/g, '')
RemoveHyphens(raw) == SelectSeq(raw, LAMBDA c : c # "-")

\* /^\d{8}$/.test(cleaned)
MatchesEightDigits(cleaned) ==
    Len(cleaned) = 8 /\ \A k \in 1..Len(cleaned) : cleaned[k] \in Digits

DateInit ==
    /\ dtRaw \in DateInputs
    /\ dtToday \in Dates
    /\ dtPc = "call"
    /\ dtResult = <<>>

DateIdle ==
    /\ dtRaw = <<>>
    /\ dtToday = <<>>
    /\ dtPc = "off"
    /\ dtResult = <<>>

\* normalizeDateInput(raw, fallbackDate = DATE_DEFAULT)
normalizeDateInput ==
    /\ dtPc = "call"
    /\ IF dtRaw = <<>>
       THEN /\ dtResult' = formatDate(dtToday)
            /\ dtPc' = "returned"
       ELSE LET cleaned == RemoveHyphens(dtRaw)
            IN  IF ~MatchesEightDigits(cleaned)
                THEN /\ dtPc' = "threw"
                     /\ UNCHANGED dtResult
                ELSE /\ dtResult' = cleaned
                     /\ dtPc' = "returned"
    /\ UNCHANGED <<dtRaw, dtToday>>
    /\ DateFrame

DateNext == normalizeDateInput

-----------------------------------------------------------------------------
(* The worker: runFetchJob (index.ts), fetchTransactions (browser.ts) and the
   loop of upsertTransactions (database.ts), one invocation *)

NoResult == [success |-> FALSE, stored |-> -1, message |-> "none"]
NoReplay == [issued |-> 0, ok |-> FALSE]
NoPending == [threw |-> FALSE, n |-> 0, missingToken |-> FALSE]
NoCall == [via |-> "none", n |-> 0, status |-> 0]

\* who invokes runFetchJob: the /trigger endpoint or the scheduled handler
Callers == {"trigger", "scheduled"}

\* what the in-page fetch of fetchTransactionData gives: ok with a payload of
\* n detail records, or not ok (a failing status, a body that is no JSON, a
\* network error)
JobReplayResults == [ok : {TRUE}, n : 0..MaxBatch] \cup [ok : {FALSE}, n : {0}]

JobInit ==
    /\ jobPc = "start"
    /\ jobBrowser = FALSE
    /\ jobHeaders = NoHeaderMap
    /\ jobReplay = NoReplay
    /\ jobLeft = 0
    /\ jobStored = 0
    /\ jobPending = NoPending
    /\ jobResult = NoResult
    /\ jobCall \in {[via |-> c, n |-> 1, status |-> 0] : c \in Callers}

JobIdle ==
    /\ jobPc = "off"
    /\ jobBrowser = FALSE
    /\ jobHeaders = NoHeaderMap
    /\ jobReplay = NoReplay
    /\ jobLeft = 0
    /\ jobStored = 0
    /\ jobPending = NoPending
    /\ jobResult = NoResult
    /\ jobCall = NoCall

\* runFetchJob returns a WorkerResult
JobReturn(success, stored, message) ==
    /\ jobPc' = "returned"
    /\ jobResult' = [success |-> success, stored |-> stored, message |-> message]

\* a plausible bug: the catch block of runFetchJob throws the error on
JobCatchRethrows ==
    /\ jobPc' = "thrown"
    /\ UNCHANGED jobResult

\* the catch block of runFetchJob
JobCatch == JobReturn(FALSE, -1, "Failed to fetch transactions")

\* a plausible bug: no finally block, the error goes straight to runFetchJob
JobThrowSkipsClose ==
    /\ JobCatch
    /\ UNCHANGED jobPending

\* something inside the try block of fetchTransactions throws: the finally
\* block closes the browser before the error reaches runFetchJob
JobThrowInBrowser ==
    /\ jobPc' = "close"
    /\ jobPending' = [threw |-> TRUE, n |-> 0, missingToken |-> FALSE]
    /\ UNCHANGED jobResult

\* runFetchJob: the credentials test
JobStart ==
    /\ jobPc = "start"
    /\ \/ JobReturn(FALSE, -1, "Missing credentials")
       \/ jobPc' = "ensureSchema" /\ UNCHANGED jobResult
    /\ UNCHANGED <<jobCall, jobBrowser, jobHeaders, jobReplay, jobLeft, jobStored, jobPending>>
    /\ JobFrame

\* await ensureSchema(env.DB)
JobSchema ==
    /\ jobPc = "ensureSchema"
    /\ \/ jobPc' = "launch" /\ UNCHANGED jobResult
       \/ JobCatch
    /\ UNCHANGED <<jobCall, jobBrowser, jobHeaders, jobReplay, jobLeft, jobStored, jobPending>>
    /\ JobFrame

\* puppeteer.launch: outside the try block of fetchTransactions
JobLaunch ==
    /\ jobPc = "launch"
    /\ \/ /\ jobPc' = "login"
          /\ jobBrowser' = TRUE
          /\ UNCHANGED jobResult
       \/ /\ JobCatch
          /\ UNCHANGED jobBrowser
    /\ UNCHANGED <<jobCall, jobHeaders, jobReplay, jobLeft, jobStored, jobPending>>
    /\ JobFrame

\* browser.newPage ... performLogin
JobLogin ==
    /\ jobPc = "login"
    /\ \/ jobPc' = "nav" /\ UNCHANGED <<jobPending, jobResult>>
       \/ JobThrowInBrowser
    /\ UNCHANGED <<jobCall, jobBrowser, jobHeaders, jobReplay, jobLeft, jobStored>>
    /\ JobFrame

\* navigateToTransactions
JobNav ==
    /\ jobPc = "nav"
    /\ \/ jobPc' = "capture" /\ UNCHANGED <<jobPending, jobResult>>
       \/ JobThrowInBrowser
    /\ UNCHANGED <<jobCall, jobBrowser, jobHeaders, jobReplay, jobLeft, jobStored>>
    /\ JobFrame

\* the header maps the worker's capture can end with: what the job does next
\* depends on secret-token alone, so the other headers are present
JobHeaderMaps ==
    {h \in HeaderMaps : \A k \in HeaderNames \ {"secret-token"} : h[k] = "v"}

\* captureApiHeaders ends: with headers that hold a secret-token
\* fetchTransactionData issues the replay call, otherwise it throws
JobCapture ==
    /\ jobPc = "capture"
    /\ \/ \E h \in JobHeaderMaps :
            IF ~Truthy(h["secret-token"])
            THEN /\ jobPc' = "close"
                 /\ jobPending' = [threw |-> TRUE, n |-> 0, missingToken |-> TRUE]
                 /\ UNCHANGED <<jobHeaders, jobReplay, jobResult>>
            ELSE /\ jobHeaders' = h
                 /\ jobReplay' = [issued |-> jobReplay.issued + 1, ok |-> FALSE]
                 /\ jobPc' = "fetch"
                 /\ UNCHANGED <<jobPending, jobResult>>
       \/ /\ JobThrowInBrowser
          /\ UNCHANGED <<jobHeaders, jobReplay>>
    /\ UNCHANGED <<jobCall, jobBrowser, jobLeft, jobStored>>
    /\ JobFrame

\* fetchTransactionData: if (!result.ok) throw
JobReplayThrows(result) == ~result.ok

\* the replay call ends: extractTransactionDetails gives the records, or
\* fetchTransactionData throws; the finally block is next either way
JobFetch ==
    /\ jobPc = "fetch"
    /\ \E result \in JobReplayResults :
         IF JobReplayThrows(result)
         THEN /\ JobThrowInBrowser
              /\ UNCHANGED jobReplay
         ELSE /\ jobPc' = "close"
              /\ jobReplay' = [jobReplay EXCEPT !.ok = result.ok]
              /\ jobPending' = [threw |-> FALSE, n |-> result.n, missingToken |-> FALSE]
              /\ UNCHANGED jobResult
    /\ UNCHANGED <<jobCall, jobBrowser, jobHeaders, jobLeft, jobStored>>
    /\ JobFrame

\* finally { await browser.close() }: then the error goes to the catch block
\* of runFetchJob, or the records go to upsertTransactions, or there are none
JobClose ==
    /\ jobPc = "close"
    /\ jobBrowser' = FALSE
    /\ \/ /\ IF jobPending.threw
             THEN JobCatch /\ UNCHANGED jobLeft
             ELSE IF jobPending.n = 0
             THEN JobReturn(TRUE, 0, "No transactions found for today")
                  /\ UNCHANGED jobLeft
             ELSE /\ jobPc' = "upsert"
                  /\ jobLeft' = jobPending.n
                  /\ UNCHANGED jobResult
       \/ /\ JobCatch
          /\ UNCHANGED jobLeft
    /\ UNCHANGED <<jobCall, jobHeaders, jobReplay, jobStored, jobPending>>
    /\ JobFrame

\* one record of the loop of upsertTransactions: skipped, stored, or the
\* statement throws; after the last one runFetchJob returns the count
JobUpsert ==
    /\ jobPc = "upsert"
    /\ \/ \E written \in 0..1 :
            /\ jobStored' = jobStored + written
            /\ jobLeft' = jobLeft - 1
            /\ IF jobLeft = 1
               THEN JobReturn(TRUE, jobStored + written, "Successfully processed")
               ELSE UNCHANGED <<jobPc, jobResult>>
       \/ /\ JobCatch
          /\ UNCHANGED <<jobLeft, jobStored>>
    /\ UNCHANGED <<jobCall, jobBrowser, jobHeaders, jobReplay, jobPending>>
    /\ JobFrame

\* the /trigger endpoint: Response.json(result, {status: result.success ? 200 : 500})
triggerStatus(result) == IF result.success THEN 200 ELSE 500

\* the /trigger endpoint answers once runFetchJob has returned; the scheduled
\* handler only waits for it (ctx.waitUntil) and answers nothing
JobRespond ==
    /\ jobPc = "returned"
    /\ jobCall.via = "trigger"
    /\ jobPc' = "responded"
    /\ jobCall' = [jobCall EXCEPT !.status = triggerStatus(jobResult)]
    /\ UNCHANGED <<jobBrowser, jobHeaders, jobReplay, jobLeft, jobStored,
                   jobPending, jobResult>>
    /\ JobFrame

\* the invocation is over for its caller
JobOver ==
    \/ jobPc = "responded"
    \/ jobPc = "returned" /\ jobCall.via = "scheduled"

\* the next request or cron event: a new invocation with its own locals
JobInvoke ==
    /\ JobOver
    /\ jobCall.n < MaxJobs
    /\ \E c \in Callers : jobCall' = [via |-> c, n |-> jobCall.n + 1, status |-> 0]
    /\ jobPc' = "start"
    /\ jobHeaders' = NoHeaderMap
    /\ jobReplay' = NoReplay
    /\ jobLeft' = 0
    /\ jobStored' = 0
    /\ jobPending' = NoPending
    /\ jobResult' = NoResult
    /\ UNCHANGED jobBrowser
    /\ JobFrame

JobNext ==
    \/ JobRespond
    \/ JobInvoke
    \/ JobStart
    \/ JobSchema
    \/ JobLaunch
    \/ JobLogin
    \/ JobNav
    \/ JobCapture
    \/ JobFetch
    \/ JobClose
    \/ JobUpsert

------------------------------------------------------------------------------
(* The monitor's process: termination signals and cleanup *)

\* process.exit has not been called
NoExit == -1

\* killed: the signal's default action ended the process, process.exit never ran
NoShutdown == [pc |-> "none", closeTried |-> FALSE, closeFailed |-> FALSE,
               killed |-> FALSE, exit |-> NoExit]

SigIdle == shutdown = NoShutdown /\ processEnv = FullEnv

\* process.on('SIGINT', cleanup) and process.on('SIGTERM', cleanup) have run
HandlersRegistered ==
    mainPc \in {"login", "nav", "schema", "capture", "poll", "awaitPoll",
                "setInterval", "scheduled"}

\* puppeteer.launch has resolved: the process owns a browser
BrowserLaunched == mainPc = "pages" \/ HandlersRegistered

\* the process of the monitor is alive
Running == mainPc \notin {"off", "fatal"} /\ shutdown.pc # "exited"

\* SIGINT or SIGTERM arrives while no handler is registered for it: the
\* default action ends the process at once
SignalDefault ==
    /\ Running
    /\ ~HandlersRegistered
    /\ shutdown' = [shutdown EXCEPT !.pc = "exited", !.killed = TRUE]
    /\ UNCHANGED processEnv
    /\ SigFrame

\* SIGINT or SIGTERM arrives with cleanup registered: cleanup starts and
\* calls browser.close()
SignalCleanup ==
    /\ Running
    /\ HandlersRegistered
    /\ shutdown.pc = "none"
    /\ shutdown' = [shutdown EXCEPT !.pc = "closing", !.closeTried = TRUE]
    /\ UNCHANGED processEnv
    /\ SigFrame

\* browser.close() settles: resolved, or rejected and logged by the catch
\* block of cleanup; process.exit(0) follows either way
CleanupExit ==
    /\ Running
    /\ shutdown.pc = "closing"
    /\ \E failed \in BOOLEAN :
         shutdown' = [shutdown EXCEPT !.pc = "exited", !.closeFailed = failed,
                                      !.exit = 0]
    /\ UNCHANGED processEnv
    /\ SigFrame

SigNext ==
    \/ SignalDefault
    \/ SignalCleanup
    \/ CleanupExit

-----------------------------------------------------------------------------
(* The login sequence: ensureLogin, login and performLogin *)

LoginVariants == {"monitor", "oneshot", "worker"}

\* cta: the page shows the "already have an account" button;
\* selectors: field selectors are configured (USERNAME_SELECTOR, PASSWORD_SELECTOR)
Portals == [cta : BOOLEAN, selectors : BOOLEAN]

\* an awaited step; caught: its rejection is swallowed by a .catch or a try/catch
Step(name, caught) == [name |-> name, caught |-> caught]

\* the label wait, and after a click the navigation and the wait for "/login"
openLoginFormIfNeeded(portal) ==
    <<Step("ctaLabel", TRUE)>> \o
    (IF portal.cta THEN <<Step("ctaNavigation", TRUE), Step("ctaUrl", TRUE)>> ELSE <<>>)

\* a plausible bug: no variant waits for the form
formGateNever(variant, portal) == <<>>

\* page.waitForSelector('form', { timeout: 20000 }), behind the configuration
\* test in the scripts and always in the worker
formGate(variant, portal) ==
    IF variant = "worker" \/ ~portal.selectors THEN <<Step("form", FALSE)>> ELSE <<>>

\* the two fields, then the click on the submit control and the navigation it starts
fillAndSubmit ==
    <<Step("username", FALSE), Step("password", FALSE),
      Step("submit", FALSE), Step("navigation", TRUE)>>

waitForPostLoginSignals ==
    <<Step("refresh", TRUE), Step("url", TRUE), Step("ready", FALSE)>>

waitForPostLogin == <<Step("refresh", TRUE), Step("url", TRUE)>>

\* the monitor
ensureLogin(portal) ==
    <<Step("goto", FALSE)>> \o openLoginFormIfNeeded(portal) \o
    formGate("monitor", portal) \o fillAndSubmit \o waitForPostLoginSignals

\* the one-shot fetcher
login(portal) ==
    <<Step("goto", FALSE)>> \o openLoginFormIfNeeded(portal) \o
    formGate("oneshot", portal) \o fillAndSubmit \o
    <<Step("refresh", TRUE), Step("url", TRUE), Step("ready", FALSE),
      Step("homeScreen", TRUE), Step("body", FALSE)>>

\* the worker
performLogin(portal) ==
    <<Step("goto", FALSE)>> \o openLoginFormIfNeeded(portal) \o
    formGate("worker", portal) \o fillAndSubmit \o waitForPostLogin

LoginSteps ==
    CASE lgVariant = "monitor" -> ensureLogin(lgPortal)
      [] lgVariant = "oneshot" -> login(lgPortal)
      [] lgVariant = "worker" -> performLogin(lgPortal)

LoginInit ==
    /\ lgVariant \in LoginVariants
    /\ lgPortal \in Portals
    /\ lgPc = 1
    /\ lgMissed = {}
    /\ lgError = "none"

LoginIdle ==
    /\ lgVariant = "monitor"
    /\ lgPortal = <<>>
    /\ lgPc = 0
    /\ lgMissed = {}
    /\ lgError = "none"

LoginRunning == lgError = "none" /\ lgPc \in 1..Len(LoginSteps)

LoginDone == lgError = "none" /\ lgPc = Len(LoginSteps) + 1

\* the awaited step resolves
StepSettles ==
    /\ LoginRunning
    /\ lgPc' = lgPc + 1
    /\ UNCHANGED <<lgVariant, lgPortal, lgMissed, lgError>>
    /\ LoginFrame

\* the awaited step rejects: a wait times out, a field or the submit control is
\* not found, the navigation fails
StepRejects ==
    /\ LoginRunning
    /\ IF LoginSteps[lgPc].caught
          THEN /\ lgMissed' = lgMissed \cup {LoginSteps[lgPc].name}
               /\ lgPc' = lgPc + 1
               /\ UNCHANGED lgError
          ELSE /\ lgError' = LoginSteps[lgPc].name
               /\ UNCHANGED <<lgPc, lgMissed>>
    /\ UNCHANGED <<lgVariant, lgPortal>>
    /\ LoginFrame

LoginNext == StepSettles \/ StepRejects

-----------------------------------------------------------------------------
(* Navigation to the transaction page and header capture, event by event *)

\* the header maps of the requests the page issues: one with a header that is
\* on no list, one with listed headers only, one without the rotating token
CaptureMaps ==
    {h \in HeaderMaps :
        /\ h["secret-id"] = "v" /\ h["secret-key"] = "v" /\ h["accept"] = "v"
        /\ h["referer"] = "v"
        /\ h["secret-token"] # ""
        /\ h["secret-token"] = Null => h["user-agent"] = "v"}

\* the listener is registered while waitForResponse is awaited
Listening == cpPc = "waiting"

CaptureInit ==
    /\ cpVariant \in Variants
    /\ cpOnPage \in BOOLEAN
    /\ cpPc = "start"
    /\ cpCaptured = NoHeaderMap
    /\ cpIssued = <<>>
    /\ cpResult = NoHeaderMap

CaptureIdle ==
    /\ cpVariant = "none"
    /\ cpOnPage = FALSE
    /\ cpPc = "off"
    /\ cpCaptured = <<>>
    /\ cpIssued = <<>>
    /\ cpResult = <<>>

\* ensureTransactionsPage / navigateToTransactions return at once on the page;
\* the one-shot fetcher always calls page.goto
ensureTransactionsPage ==
    /\ cpPc = "start"
    /\ cpPc' = IF cpVariant # "oneshot" /\ cpOnPage THEN "loaded" ELSE "navigating"
    /\ UNCHANGED <<cpVariant, cpOnPage, cpCaptured, cpIssued, cpResult>>
    /\ CaptureFrame

\* page.goto(..., { waitUntil: 'networkidle2' }) resolves
GotoResolves ==
    /\ cpPc = "navigating"
    /\ cpPc' = "loaded"
    /\ UNCHANGED <<cpVariant, cpOnPage, cpCaptured, cpIssued, cpResult>>
    /\ CaptureFrame

\* a plausible bug: the listener keeps the first matching request
onRequestKeepsFirst(headers) == IF cpCaptured = NoHeaderMap THEN headers ELSE cpCaptured

\* the listener: capturedHeaders = request.headers()
onRequest(headers) == headers

\* the page issues a request to the transaction-fetch path, while it loads or
\* later; onRequest runs when it is registered
PortalRequest ==
    /\ cpPc \in {"navigating", "loaded", "waiting"}
    /\ Len(cpIssued) < MaxRequests
    /\ \E h \in CaptureMaps, m \in {"GET", "OPTIONS"} :
          /\ cpIssued' = Append(cpIssued, [headers |-> h, method |-> m,
                                           heard |-> Listening, answered |-> FALSE])
          /\ cpCaptured' = IF Listening THEN onRequest(h) ELSE cpCaptured
    /\ UNCHANGED <<cpVariant, cpOnPage, cpPc, cpResult>>
    /\ CaptureFrame

\* what capture does once waitForResponse has resolved: page.off, the test of
\* capturedHeaders, return
CaptureEnds ==
    IF cpCaptured = NoHeaderMap \/ (cpVariant = "worker" /\ ~Truthy(cpCaptured["secret-token"]))
    THEN cpPc' = "failed" /\ UNCHANGED cpResult
    ELSE cpPc' = "returned" /\ cpResult' = cpCaptured

\* the response to one of the requests arrives; a GET response resolves
\* waitForResponse when it is awaited
PortalResponse ==
    /\ cpPc \in {"navigating", "loaded", "waiting"}
    /\ \E k \in DOMAIN cpIssued :
          /\ ~cpIssued[k].answered
          /\ cpIssued' = [cpIssued EXCEPT ![k].answered = TRUE]
          /\ IF Listening /\ cpIssued[k].method = "GET"
                THEN CaptureEnds
                ELSE UNCHANGED <<cpPc, cpResult>>
    /\ UNCHANGED <<cpVariant, cpOnPage, cpCaptured>>
    /\ CaptureFrame

\* captureTransactionHeaders / captureApiHeaders up to the await: capturedHeaders
\* is empty, page.on('request', onRequest), waitForResponse
CaptureStart ==
    /\ cpPc = "loaded"
    /\ cpPc' = "waiting"
    /\ cpCaptured' = NoHeaderMap
    /\ UNCHANGED <<cpVariant, cpOnPage, cpIssued, cpResult>>
    /\ CaptureFrame

\* waitForResponse rejects after 20000 ms: page.off, capture throws
CaptureTimeout ==
    /\ cpPc = "waiting"
    /\ cpPc' = "timedOut"
    /\ UNCHANGED <<cpVariant, cpOnPage, cpCaptured, cpIssued, cpResult>>
    /\ CaptureFrame

CaptureNext ==
    \/ ensureTransactionsPage
    \/ GotoResolves
    \/ PortalRequest
    \/ PortalResponse
    \/ CaptureStart
    \/ CaptureTimeout

-----------------------------------------------------------------------------
(* One cycle from login to the store: ensureLogin, captureTransactionHeaders,
   fetchAndStore of the monitor and fetchTransactions, upsertTransactions of the
   worker, on a portal whose endpoint returns
   {result: {data: [{detail: <record>}]}} *)

\* JS values of a field of a detail record
Undefined == [t |-> "undefined"]
JsNull == [t |-> "null"]
Str(s) == [t |-> "string", s |-> s]
Num(n) == [t |-> "number", n |-> n]

\* what an amount field of a record can hold
AmountValues == {Undefined, JsNull, Str(""), Str("0"), Str("50000"), Num(0), Num(50000)}

\* the records the portal serves
PortalRecords ==
    [reffNumber : {"TX1", ""}, customerName : {"JOHN DOE"},
     transferAmountNumber : AmountValues, feeAmountNumber : AmountValues,
     authAmountNumber : AmountValues, percentageFeeAmountNumber : AmountValues]

\* JS Number() on these values
JsNumber(value) ==
    CASE value.t = "number" -> value.n
      [] value.t = "string" -> Number(value.s)
      [] OTHER -> 0

\* a plausible bug: Number(value) on every value, so that '' and null give 0
toNumberZero(value) == IF value = Undefined THEN NullNum ELSE JsNumber(value)

\* toNumber of mapDetailToColumns / mapDetailToParams:
\* value === null || value === undefined || value === '' ? null : Number(value)
toNumberJs(value) ==
    IF value = JsNull \/ value = Undefined \/ value = Str("") THEN NullNum
    ELSE JsNumber(value)

\* the bound parameters of the INSERT statement: the key, the four numeric
\* amount columns and the customer's name
mapDetailToParams(detail) ==
    [reff_number                  |-> detail.reffNumber,
     transfer_amount_number       |-> toNumberJs(detail.transferAmountNumber),
     fee_amount_number            |-> toNumberJs(detail.feeAmountNumber),
     auth_amount_number           |-> toNumberJs(detail.authAmountNumber),
     percentage_fee_amount_number |-> toNumberJs(detail.percentageFeeAmountNumber),
     customer_name                |-> detail.customerName]

\* INSERT ... ON CONFLICT(reff_number) DO UPDATE on rows of these columns
D1Run(t, params) ==
    {r \in t : r.reff_number # params.reff_number} \cup {params}

\* the payload {result: {data: [{detail: record}]}} as objects 1..5: the root,
\* result, the data array, its item, the record; each with its detail property
\* and its Object.values
Payload ==
    <<[detail |-> NoRef, values |-> <<2>>],
      [detail |-> NoRef, values |-> <<3>>],
      [detail |-> NoRef, values |-> <<4>>],
      [detail |-> 5, values |-> <<5>>],
      [detail |-> NoRef, values |-> <<>>]>>

\* a plausible bug: the walk stops at the first level, as if the records were
\* the payload's own properties
walkRootOnly(graph, stack, visited, details) ==
    IF graph[1].detail # NoRef THEN <<graph[1].detail>> ELSE <<>>

\* walk of collectDetailRecords / extractTransactionDetails, on the calls still
\* to make
RECURSIVE walkAll(_, _, _, _)
walkAll(graph, stack, visited, details) ==
    IF stack = <<>> THEN details
    ELSE LET node == Head(stack)
         IN  IF node = NoRef \/ node \in visited
             THEN walkAll(graph, Tail(stack), visited, details)
             ELSE walkAll(graph, graph[node].values \o Tail(stack),
                          visited \cup {node},
                          IF graph[node].detail # NoRef
                          THEN Append(details, graph[node].detail)
                          ELSE details)

extractTransactionDetails(graph) == walkAll(graph, <<1>>, {}, <<>>)

RunInit ==
    /\ runVariant \in {"monitor", "worker"}
    /\ runPortal \in [cta : BOOLEAN, record : PortalRecords]
    /\ runPc = "login"
    /\ runHeaders = NoHeaderMap
    /\ runDetails = <<>>
    /\ runNext = 1
    /\ runTable = {}

RunIdle ==
    /\ runVariant = "none"
    /\ runPortal = <<>>
    /\ runPc = "off"
    /\ runHeaders = <<>>
    /\ runDetails = <<>>
    /\ runNext = 1
    /\ runTable = {}

\* the login sequence of the variant, on this portal
RunLoginSteps ==
    IF runVariant = "monitor"
    THEN ensureLogin([cta |-> runPortal.cta, selectors |-> FALSE])
    ELSE performLogin([cta |-> runPortal.cta, selectors |-> FALSE])

\* ensureLogin / performLogin and the navigation to the transaction page: the
\* login throws when a step that is not caught rejects
RunLogin ==
    /\ runPc = "login"
    /\ \/ runPc' = "capture"
       \/ /\ \E k \in DOMAIN RunLoginSteps : ~RunLoginSteps[k].caught
          /\ runPc' = "failed"
    /\ UNCHANGED <<runVariant, runPortal, runHeaders, runDetails, runNext, runTable>>
    /\ RunFrame

\* captureTransactionHeaders / captureApiHeaders: the headers of the portal's
\* own request, or a timeout
RunCapture ==
    /\ runPc = "capture"
    /\ \/ \E h \in CaptureMaps :
            IF runVariant = "worker" /\ ~Truthy(h["secret-token"])
            THEN runPc' = "failed" /\ UNCHANGED runHeaders
            ELSE runPc' = "replay" /\ runHeaders' = onRequest(h)
       \/ runPc' = "failed" /\ UNCHANGED runHeaders
    /\ UNCHANGED <<runVariant, runPortal, runDetails, runNext, runTable>>
    /\ RunFrame

\* the portal answers 200 with the payload when the replay carries the three
\* secrets, and 401 otherwise
PortalAnswer(sent) ==
    IF \A k \in SecretNames : Truthy(sent[k])
    THEN [status |-> 200, json |-> "object", len |-> 1]
    ELSE [status |-> 401, json |-> "object", len |-> 1]

\* fetchTransactions / fetchTransactionData, then collectDetailRecords /
\* extractTransactionDetails on the payload; fetchAndStore returns when there
\* are no details
RunReplay ==
    /\ runPc = "replay"
    /\ LET sent == IF runVariant = "monitor" THEN filterHeaders(runHeaders)
                   ELSE filterHeadersWorker(runHeaders)
           outcome == ReplayOutcome(runVariant, PortalAnswer(sent))
           details == extractTransactionDetails(Payload)
       IN  IF outcome.kind # "records"
           THEN runPc' = "failed" /\ UNCHANGED runDetails
           ELSE /\ runDetails' = [k \in DOMAIN details |-> runPortal.record]
                /\ runPc' = IF details = <<>> THEN "done" ELSE "persist"
    /\ UNCHANGED <<runVariant, runPortal, runHeaders, runNext, runTable>>
    /\ RunFrame

\* one iteration of the loop of persistDetails / upsertTransactions
RunPersist ==
    /\ runPc = "persist"
    /\ runNext <= Len(runDetails)
    /\ LET detail == runDetails[runNext]
       IN  IF SkipsRecord(detail)
           THEN runNext' = runNext + 1 /\ UNCHANGED <<runPc, runTable>>
           ELSE \/ /\ runTable' = D1Run(runTable, mapDetailToParams(detail))
                   /\ runNext' = runNext + 1
                   /\ UNCHANGED runPc
                \/ /\ runPc' = "failed"
                   /\ UNCHANGED <<runNext, runTable>>
    /\ UNCHANGED <<runVariant, runPortal, runHeaders, runDetails>>
    /\ RunFrame

\* the loop is over: `return stored`
RunReturn ==
    /\ runPc = "persist"
    /\ runNext > Len(runDetails)
    /\ runPc' = "done"
    /\ UNCHANGED <<runVariant, runPortal, runHeaders, runDetails, runNext, runTable>>
    /\ RunFrame

RunNext ==
    \/ RunLogin
    \/ RunCapture
    \/ RunReplay
    \/ RunPersist
    \/ RunReturn

-----------------------------------------------------------------------------
(* The locators of the login form: clickLoginButton and the lookup of a field
   by its label *)

\* no call is made
DomIdle == clickRun = <<>> /\ locateRun = <<>>

\* what a candidate selector finds: nothing, a button with another text, or a
\* button whose text is the submit text
CandidateFinds == {"absent", "other", "match"}

\* label: a span.MuiButton-label with the submit text sits inside a button;
\* selector: the configured submit selector can be clicked;
\* cands: what 'button[type="submit"]', 'button.login-btn' and
\* 'button.MuiButton-root' find
ClickPages == [label : BOOLEAN, selector : BOOLEAN, cands : [1..3 -> CandidateFinds]]

\* a plausible bug: the configured selector is tried before the text label
clickLoginButtonSelectorFirst(variant) ==
    IF variant = "worker"
    THEN <<"label", "cand1">>
    ELSE <<"selector", "label", "cand1", "cand2", "cand3">>

\* the tiers of clickLoginButton in the order the code tries them: the scripts
\* try the label, the selector and three candidates, the worker the label and
\* button[type="submit"]
clickLoginButton(variant) ==
    IF variant = "worker"
    THEN <<"label", "cand1">>
    ELSE <<"label", "selector", "cand1", "cand2", "cand3">>

CandidateIndex(tier) ==
    CASE tier = "cand1" -> 1 [] tier = "cand2" -> 2 [] tier = "cand3" -> 3

\* the tier finds its element and clicks it: the scripts click a candidate
\* only when its text is the submit text, the worker clicks any submit button
TierClicks(variant, page, tier) ==
    CASE tier = "label" -> page.label
      [] tier = "selector" -> page.selector
      [] OTHER ->
           IF variant = "worker"
           THEN page.cands[CandidateIndex(tier)] # "absent"
           ELSE page.cands[CandidateIndex(tier)] = "match"

ClickInit ==
    /\ clickRun \in
         {[variant |-> v, page |-> p, pc |-> 1, tried |-> <<>>, clicks |-> 0,
           result |-> "none"] :
            v \in LoginVariants, p \in ClickPages}
    /\ clickRun.variant = "worker" =>
          /\ ~clickRun.page.selector
          /\ clickRun.page.cands[2] = "absent" /\ clickRun.page.cands[3] = "absent"
    /\ locateRun = <<>>

\* the tier at clickRun.pc is tried: a click ends the call, a miss or a throw
\* that is caught leads to the next tier
ClickTry ==
    /\ clickRun.result = "none"
    /\ clickRun.pc <= Len(clickLoginButton(clickRun.variant))
    /\ LET tier == clickLoginButton(clickRun.variant)[clickRun.pc]
           hit  == TierClicks(clickRun.variant, clickRun.page, tier)
       IN  clickRun' = [clickRun EXCEPT
                          !.tried = Append(@, tier),
                          !.clicks = IF hit THEN @ + 1 ELSE @,
                          !.pc = @ + 1,
                          !.result = IF hit THEN "returned" ELSE "none"]
    /\ UNCHANGED locateRun
    /\ DomFrame

\* no tier clicked: throw new Error('Unable to locate a usable login button')
ClickThrows ==
    /\ clickRun.result = "none"
    /\ clickRun.pc > Len(clickLoginButton(clickRun.variant))
    /\ clickRun' = [clickRun EXCEPT !.result = "threw"]
    /\ UNCHANGED locateRun
    /\ DomFrame

ClickNext == ClickTry \/ ClickThrows

\* the places of the DOM an input can be found in, seen from the label:
\* its bound control, its k-th previous or next sibling (1 is the nearest), or
\* the label element itself
NoInput == [at |-> "none", k |-> 0]
Input(at, k) == [at |-> at, k |-> k]

\* some sibling holds an input in each kind of DOM listed
SiblingRows == UNION {[1..n -> BOOLEAN] : n \in 0..MaxSiblings}

\* found: a label with the text exists; control: label.control is set;
\* prev, next: whether the k-th previous / next sibling is or contains an
\* input; inner: the label element contains an input that is not its control
Doms == [found : BOOLEAN, control : BOOLEAN, prev : SiblingRows,
         next : SiblingRows, inner : BOOLEAN]

\* the nearest sibling of the row that is or contains an input
NearestIn(row, at) ==
    IF \E k \in 1..Len(row) : row[k]
    THEN Input(at, CHOOSE k \in 1..Len(row) : row[k] /\ \A j \in 1..(k - 1) : ~row[j])
    ELSE NoInput

\* withinParent(label.parentElement): the first input of the parent in
\* document order
ParentFinds(dom) ==
    IF \E k \in 1..Len(dom.prev) : dom.prev[k]
    THEN Input("prev", CHOOSE k \in 1..Len(dom.prev) :
                          dom.prev[k] /\ \A j \in (k + 1)..Len(dom.prev) : ~dom.prev[j])
    ELSE IF dom.inner THEN Input("label", 0)
    ELSE NearestIn(dom.next, "next")

\* what one tier of the lookup yields
TierFinds(dom, tier) ==
    CASE tier = "control" -> IF dom.control THEN Input("control", 0) ELSE NoInput
      [] tier = "next" -> NearestIn(dom.next, "next")
      [] tier = "prev" -> NearestIn(dom.prev, "prev")
      [] tier = "parent" -> ParentFinds(dom)

\* the worker's typeIntoFieldByLabel: control, next siblings, previous
\* siblings, parent
typeIntoFieldByLabel == <<"control", "next", "prev", "parent">>

\* the scripts' waitForInputByLabel: control, previous siblings, next
\* siblings, parent
waitForInputByLabel == <<"control", "prev", "next", "parent">>

LocateTiers(variant) ==
    IF variant = "worker" THEN typeIntoFieldByLabel ELSE waitForInputByLabel

LocateInit ==
    /\ locateRun \in
         {[variant |-> v, dom |-> d, pc |-> 0, result |-> NoInput, over |-> FALSE] :
            v \in LoginVariants, d \in Doms}
    /\ clickRun = <<>>

\* the label is looked up: the scripts wait for it and throw on the timeout,
\* the worker's lookup yields null and throws
LocateLabel ==
    /\ ~locateRun.over
    /\ locateRun.pc = 0
    /\ locateRun' = IF locateRun.dom.found
                    THEN [locateRun EXCEPT !.pc = 1]
                    ELSE [locateRun EXCEPT !.over = TRUE]
    /\ UNCHANGED clickRun
    /\ DomFrame

\* one tier of the lookup: an input ends it, otherwise the next tier is tried
LocateTier ==
    /\ ~locateRun.over
    /\ locateRun.pc \in 1..Len(LocateTiers(locateRun.variant))
    /\ LET input == TierFinds(locateRun.dom, LocateTiers(locateRun.variant)[locateRun.pc])
       IN  locateRun' = IF input # NoInput
                        THEN [locateRun EXCEPT !.result = input, !.over = TRUE]
                        ELSE [locateRun EXCEPT !.pc = @ + 1]
    /\ UNCHANGED clickRun
    /\ DomFrame

\* no tier yields an element: the lookup throws
LocateNotFound ==
    /\ ~locateRun.over
    /\ locateRun.pc > Len(LocateTiers(locateRun.variant))
    /\ locateRun' = [locateRun EXCEPT !.over = TRUE]
    /\ UNCHANGED clickRun
    /\ DomFrame

LocateNext == LocateLabel \/ LocateTier \/ LocateNotFound

-----------------------------------------------------------------------------
(* Clients of the shared D1 database: the monitor's main and poll, and
   invocations of the worker's runFetchJob from /trigger and from the cron *)

ClientIdle == d1 = <<>> /\ clients = <<>>

ClientIds == 1..2

\* the programs that run at once
ClientKinds ==
    {<<"scheduled", "trigger">>, <<"monitor", "trigger">>, <<"monitor", "scheduled">>}

\* the record the portal reports under a reference number
DetailOfReff(reff) ==
    [reffNumber |-> reff, customerName |-> "JOHN DOE", authAmountNumber |-> "50000"]

\* the lists of records a fetch can hand to the store
Batches == UNION {[1..n -> Reffs] : n \in 0..MaxBatch}

\* a plausible bug: the table is created anew on every start
CreateTable(db) == [db EXCEPT !.exists = TRUE, !.rows = {}]

\* CREATE TABLE IF NOT EXISTS transactions (...)
CreateTableIfNotExists(db) ==
    IF db.exists THEN db ELSE [db EXCEPT !.exists = TRUE, !.rows = {}]

\* CREATE INDEX IF NOT EXISTS idx_transactions_auth_date ON transactions(...)
CreateIndexIfNotExists(db) == [db EXCEPT !.index = TRUE]

NewClient(kind) ==
    [kind |-> kind, pc |-> "createTable", batch |-> <<>>, k |-> 0,
     ensured |-> FALSE, cycles |-> 0, stored |-> 0]

\* the database is new, or holds the table with a row of an earlier day's run
ClientInit ==
    /\ d1 \in {[exists |-> FALSE, index |-> FALSE, rows |-> {}, now |-> 0],
               [exists |-> TRUE, index |-> TRUE, rows |-> {}, now |-> 0],
               [exists |-> TRUE, index |-> TRUE, now |-> 0,
                rows |-> {RowOf(mapDetailToColumns(DetailOfReff("TX1")), 0, 0)}]}
    /\ clients \in {[c \in ClientIds |-> NewClient(kinds[c])] : kinds \in ClientKinds}

\* a statement or the fetch threw: main rejects and the process exits, poll
\* catches and the next tick runs a new cycle, runFetchJob returns a failure
Thrown(client, where) ==
    IF client.kind = "monitor"
    THEN IF where = "schema"
         THEN [client EXCEPT !.pc = "fatal"]
         ELSE [client EXCEPT !.pc = "fetch", !.cycles = @ + 1, !.batch = <<>>, !.k = 0]
    ELSE [client EXCEPT !.pc = "failed", !.batch = <<>>, !.k = 0]

\* the cycle or the job is over without an error
Completed(client) ==
    IF client.kind = "monitor"
    THEN [client EXCEPT !.pc = "fetch", !.cycles = @ + 1, !.batch = <<>>, !.k = 0]
    ELSE [client EXCEPT !.pc = "returned", !.batch = <<>>, !.k = 0]

\* the first statement of ensureSchema
EnsureTable(c) ==
    /\ clients[c].pc = "createTable"
    /\ \/ /\ d1' = CreateTableIfNotExists(d1)
          /\ clients' = [clients EXCEPT ![c].pc = "createIndex"]
       \/ /\ clients' = [clients EXCEPT ![c] = Thrown(@, "schema")]
          /\ UNCHANGED d1
    /\ ClientFrame

\* the second statement of ensureSchema
EnsureIndex(c) ==
    /\ clients[c].pc = "createIndex"
    /\ \/ /\ d1.exists
          /\ d1' = CreateIndexIfNotExists(d1)
          /\ clients' = [clients EXCEPT ![c].pc = "fetch", ![c].ensured = TRUE]
       \/ /\ clients' = [clients EXCEPT ![c] = Thrown(@, "schema")]
          /\ UNCHANGED d1
    /\ ClientFrame

\* the records of the day are fetched from the portal: the fetch throws, or
\* hands back no record, or a list for persistDetails / upsertTransactions
ClientFetch(c) ==
    /\ clients[c].pc = "fetch"
    /\ clients[c].cycles < MaxCalls
    /\ \/ clients' = [clients EXCEPT ![c] = Thrown(@, "fetch")]
       \/ \E batch \in Batches :
            clients' = [clients EXCEPT ![c] =
                          IF batch = <<>> THEN Completed(@)
                          ELSE [@ EXCEPT !.pc = "upsert", !.batch = batch, !.k = 1]]
    /\ UNCHANGED d1
    /\ ClientFrame

\* one iteration of the loop of persistDetails / upsertTransactions: the
\* statement of the next record is executed, or the store operation throws
ClientUpsert(c) ==
    /\ clients[c].pc = "upsert"
    /\ \/ /\ d1.exists
          /\ d1' = [d1 EXCEPT !.rows =
                      D1Upsert(@, mapDetailToColumns(DetailOfReff(clients[c].batch[clients[c].k])),
                               d1.now)]
          /\ clients' = [clients EXCEPT ![c] =
                           IF @.k = Len(@.batch)
                           THEN Completed([@ EXCEPT !.stored = @ + 1])
                           ELSE [@ EXCEPT !.k = @ + 1, !.stored = @ + 1]]
       \/ /\ clients' = [clients EXCEPT ![c] = Thrown(@, "upsert")]
          /\ UNCHANGED d1
    /\ ClientFrame

\* CURRENT_TIMESTAMP moves on by a second
ClientTick ==
    /\ d1.now < MaxClock
    /\ d1' = [d1 EXCEPT !.now = @ + 1]
    /\ UNCHANGED clients
    /\ ClientFrame

ClientNext ==
    \/ \E c \in ClientIds :
          \/ EnsureTable(c)
          \/ EnsureIndex(c)
          \/ ClientFetch(c)
          \/ ClientUpsert(c)
    \/ ClientTick

-----------------------------------------------------------------------------
(* The request listeners of a page over successive header captures:
   captureTransactionHeaders of the two scripts, captureApiHeaders of the
   worker *)

ListenIdle == listenRun = <<>>

\* the header maps of the requests to the transaction-fetch path: with the
\* rotating token and without it
ListenMaps ==
    {h \in CaptureMaps : \A k \in HeaderNames \ {"secret-token"} : h[k] = "v"}

\* `let capturedHeaders = null` (the worker: {})
NoRequest == [headers |-> NoHeaderMap, n |-> 0]

ListenInit ==
    \E v \in Variants :
       listenRun = [variant |-> v, listeners |-> {}, calls |-> <<>>, issued |-> 0,
                    pending |-> 0]

\* the capture that awaits waitForResponse, if there is one
Waiting == {k \in DOMAIN listenRun.calls : listenRun.calls[k].pc = "waiting"}

\* capture is called, and runs up to its await: capturedHeaders is empty,
\* page.on('request', onRequest), waitForResponse
ListenCall ==
    /\ Waiting = {}
    /\ Len(listenRun.calls) < MaxCaptures
    /\ listenRun' =
          [listenRun EXCEPT
             !.calls = Append(@, [pc |-> "waiting", captured |-> NoRequest,
                                  from |-> listenRun.issued]),
             !.listeners = @ \cup {Len(listenRun.calls) + 1}]
    /\ ListenFrame

\* the page issues a request to the transaction-fetch path: the page emits
\* 'request' to every listener that is registered, and each one assigns the
\* headers to the capturedHeaders of its call
ListenRequest ==
    /\ listenRun.issued < MaxRequests
    /\ \E h \in ListenMaps :
          listenRun' =
             [listenRun EXCEPT
                !.issued = @ + 1,
                !.pending = @ + 1,
                !.calls = [k \in DOMAIN listenRun.calls |->
                             IF k \in listenRun.listeners
                             THEN [listenRun.calls[k] EXCEPT !.captured =
                                      [headers |-> onRequest(h),
                                       n |-> listenRun.issued + 1]]
                             ELSE listenRun.calls[k]]]
    /\ ListenFrame

\* the test of capturedHeaders after the finally block: the scripts want a
\* value, the worker wants a secret-token
Recorded(variant, captured) ==
    /\ captured # NoRequest
    /\ variant = "worker" => Truthy(captured.headers["secret-token"])

\* a GET response from the transaction-fetch path arrives: waitForResponse
\* resolves when it is awaited, the finally block runs page.off, and capture
\* returns the headers or throws that none were recorded
ListenResponse ==
    /\ listenRun.pending > 0
    /\ listenRun' =
          [listenRun EXCEPT
             !.pending = @ - 1,
             !.listeners = @ \ Waiting,
             !.calls = [k \in DOMAIN listenRun.calls |->
                          IF k \in Waiting
                          THEN [listenRun.calls[k] EXCEPT !.pc =
                                   IF Recorded(listenRun.variant, listenRun.calls[k].captured)
                                   THEN "returned" ELSE "failed"]
                          ELSE listenRun.calls[k]]]
    /\ ListenFrame

\* a plausible bug: page.off at the end of the try block instead of in a
\* finally block, so a wait that timed out leaves the listener registered
ListenTimeoutKeepsListener ==
    /\ Waiting # {}
    /\ listenRun' =
          [listenRun EXCEPT
             !.calls = [k \in DOMAIN listenRun.calls |->
                          IF k \in Waiting THEN [listenRun.calls[k] EXCEPT !.pc = "timedOut"]
                          ELSE listenRun.calls[k]]]
    /\ ListenFrame

\* waitForResponse rejects after 20000 ms: the finally block runs page.off,
\* capture throws
ListenTimeout ==
    /\ Waiting # {}
    /\ listenRun' =
          [listenRun EXCEPT
             !.listeners = @ \ Waiting,
             !.calls = [k \in DOMAIN listenRun.calls |->
                          IF k \in Waiting THEN [listenRun.calls[k] EXCEPT !.pc = "timedOut"]
                          ELSE listenRun.calls[k]]]
    /\ ListenFrame

ListenNext ==
    \/ ListenCall
    \/ ListenRequest
    \/ ListenResponse
    \/ ListenTimeout

-----------------------------------------------------------------------------
(* Specifications *)

StoreIdle ==
    /\ table = {}
    /\ dbClock = 0
    /\ call = IdleCall
    /\ log = <<>>
    /\ everUpserted = {}
    /\ lastOp = NoOp

\* the program that runs is the monitor, or one invocation of the worker's job
Init ==
    /\ \/ MonInit /\ JobIdle /\ processEnv \in Envs
       \/ MonIdle /\ JobInit /\ processEnv = FullEnv
    /\ StoreIdle /\ ReplayIdle /\ ListenIdle /\ ClientIdle /\ DomIdle /\ RunIdle /\ CaptureIdle /\ LoginIdle /\ WalkIdle /\ DateIdle
    /\ shutdown = NoShutdown

Next == MonNext \/ JobNext

Spec == Init /\ [][Next]_vars

\* an operation a cycle awaits settles: the browser's waits have timeouts, and
\* the event loop runs the continuation of every settled promise
CycleStep ==
    \E i \in Inv :
       \/ inv[i].pc = "refresh" /\ CycleRefresh(i)
       \/ inv[i].pc = "replay" /\ CycleReplay(i)
       \/ inv[i].pc = "persist" /\ CyclePersist(i)
       \/ inv[i].pc = "relogin" /\ CycleRelogin(i)
       \/ inv[i].pc = "renav" /\ CycleRenav(i)
       \/ inv[i].pc = "recapture" /\ CycleRecapture(i)
       \/ inv[i].pc = "finally" /\ CycleFinally(i)

SpecFair == Init /\ [][Next]_vars /\ WF_vars(CycleStep)

\* the monitor's process with termination signals: nothing of the monitor
\* runs once the process has exited
InitSignal ==
    /\ MonInit /\ JobIdle /\ StoreIdle /\ ReplayIdle /\ ListenIdle /\ ClientIdle /\ DomIdle /\ RunIdle /\ CaptureIdle /\ LoginIdle /\ WalkIdle /\ DateIdle
    /\ shutdown = NoShutdown
    /\ processEnv \in Envs
NextSignal == (Running /\ MonNext) \/ SigNext
SpecSignal == InitSignal /\ [][NextSignal]_vars

\* the monitor with a system clock that can be set back
NextClock == Next \/ ClockStepBack
SpecClock == Init /\ [][NextClock]_vars

\* a component checked on its own: no process of the program runs, and the
\* objects a process would have built do not exist
NoMonitor ==
    /\ mainPc = "off"
    /\ pageUrl = "blank"
    /\ loginFailed = FALSE
    /\ polling = FALSE
    /\ lastRun = 0
    /\ now = 0
    /\ timerSet = FALSE
    /\ nextTick = 0
    /\ latestHeaders = <<>>
    /\ inv = <<>>
    /\ loginCount = 0
    /\ cyclesDone = 0

NoJob ==
    /\ jobPc = "off"
    /\ jobBrowser = FALSE
    /\ jobHeaders = <<>>
    /\ jobReplay = <<>>
    /\ jobLeft = 0
    /\ jobStored = 0
    /\ jobPending = <<>>
    /\ jobResult = <<>>
    /\ jobCall = <<>>

InitStore == StoreInit /\ NoMonitor /\ ReplayIdle /\ ListenIdle /\ ClientIdle /\ DomIdle /\ RunIdle /\ CaptureIdle /\ LoginIdle /\ WalkIdle /\ DateIdle /\ NoJob /\ SigIdle

SpecStore == InitStore /\ [][StoreNext]_vars

InitReplay == ReplayInit /\ ListenIdle /\ ClientIdle /\ DomIdle /\ RunIdle /\ CaptureIdle /\ LoginIdle /\ StoreIdle /\ NoMonitor /\ WalkIdle /\ DateIdle /\ NoJob /\ SigIdle

SpecReplay == InitReplay /\ [][ReplayNext]_vars

InitWalk == WalkInit /\ StoreIdle /\ NoMonitor /\ ReplayIdle /\ ListenIdle /\ ClientIdle /\ DomIdle /\ RunIdle /\ CaptureIdle /\ LoginIdle /\ DateIdle /\ NoJob /\ SigIdle

\* a call of walk that has been made runs to its end: the walk is synchronous
SpecWalk == InitWalk /\ [][WalkNext]_vars /\ WF_vars(WalkNext)

InitLogin == LoginInit /\ StoreIdle /\ NoMonitor /\ ReplayIdle /\ ListenIdle /\ ClientIdle /\ DomIdle /\ RunIdle /\ CaptureIdle /\ WalkIdle /\ DateIdle /\ NoJob /\ SigIdle

SpecLogin == InitLogin /\ [][LoginNext]_vars

InitCapture == CaptureInit /\ StoreIdle /\ NoMonitor /\ ReplayIdle /\ ListenIdle /\ ClientIdle /\ DomIdle /\ RunIdle /\ LoginIdle /\ WalkIdle /\ DateIdle /\ NoJob /\ SigIdle

SpecCapture == InitCapture /\ [][CaptureNext]_vars

InitRun == RunInit /\ StoreIdle /\ NoMonitor /\ ReplayIdle /\ ListenIdle /\ ClientIdle /\ DomIdle /\ CaptureIdle /\ LoginIdle /\ WalkIdle /\ DateIdle /\ NoJob /\ SigIdle

SpecRun == InitRun /\ [][RunNext]_vars

InitDate == DateInit /\ StoreIdle /\ NoMonitor /\ ReplayIdle /\ ListenIdle /\ ClientIdle /\ DomIdle /\ RunIdle /\ CaptureIdle /\ LoginIdle /\ WalkIdle /\ NoJob /\ SigIdle

SpecDate == InitDate /\ [][DateNext]_vars

InitClick == ClickInit /\ StoreIdle /\ NoMonitor /\ ReplayIdle /\ ListenIdle /\ ClientIdle /\ RunIdle /\ CaptureIdle /\ LoginIdle /\ WalkIdle /\ DateIdle /\ NoJob /\ SigIdle

SpecClick == InitClick /\ [][ClickNext]_vars

InitLocate == LocateInit /\ StoreIdle /\ NoMonitor /\ ReplayIdle /\ ListenIdle /\ ClientIdle /\ RunIdle /\ CaptureIdle /\ LoginIdle /\ WalkIdle /\ DateIdle /\ NoJob /\ SigIdle

SpecLocate == InitLocate /\ [][LocateNext]_vars

InitClients == ClientInit /\ StoreIdle /\ NoMonitor /\ ReplayIdle /\ ListenIdle /\ DomIdle /\ RunIdle /\ CaptureIdle /\ LoginIdle /\ WalkIdle /\ DateIdle /\ NoJob /\ SigIdle

SpecClients == InitClients /\ [][ClientNext]_vars

InitListeners == ListenInit /\ ClientIdle /\ StoreIdle /\ NoMonitor /\ ReplayIdle /\ DomIdle /\ RunIdle /\ CaptureIdle /\ LoginIdle /\ WalkIdle /\ DateIdle /\ NoJob /\ SigIdle

SpecListeners == InitListeners /\ [][ListenNext]_vars

-----------------------------------------------------------------------------
(* Properties of the upsert store, checked under SpecStore *)

StoredReffs == {r.reff_number : r \in table}

\* the first two upsert calls of the behaviour have returned, each over valid
\* records with pairwise distinct reference numbers
TwoCleanCalls ==
    /\ call.state = "idle"
    /\ Len(log) = 2
    /\ \A i \in 1..2 : ~log[i].threw /\ log[i].distinct

\* C1: starting from an empty store, upserting N valid records with pairwise
\* distinct reference numbers and then M such records, K of which share a
\* reference number with the first set, leaves exactly N + M - K rows.
C1_RowCount ==
    TwoCleanCalls =>
        Cardinality(table) =
            Cardinality(log[1].reffs) + Cardinality(log[2].reffs)
              - Cardinality(log[1].reffs \cap log[2].reffs)

\* two calls that overlap in part: N = 1, M = 2, K = 1
C1_Witness ==
    /\ TwoCleanCalls
    /\ Cardinality(log[1].reffs) = 1
    /\ Cardinality(log[2].reffs) = 2
    /\ Cardinality(log[1].reffs \cap log[2].reffs) = 1
    /\ log[1].result = 1 /\ log[2].result = 2

\* the last statement hit a stored reference number with other mutable values
UpdatedWithOtherValues ==
    /\ lastOp.kind = "update"
    /\ mapDetailToColumns(lastOp.detail).customer_name # lastOp.old.customer_name

\* the row of the last statement holds the statement's values and the
\* created-at value the row had before
LastWriteWins ==
    LET reff == lastOp.detail.reffNumber
        p    == mapDetailToColumns(lastOp.detail)
        new  == RowFor(table, reff)
    IN  /\ Cardinality({r \in table : r.reff_number = reff}) = 1
        /\ new.customer_name = p.customer_name
        /\ new.auth_amount_number = p.auth_amount_number
        /\ new.created_at = lastOp.old.created_at

\* C2 as stated: upserting a stored reference number with different mutable
\* values leaves one row holding only the second values, with created-at
\* unchanged and updated-at advanced (strictly later than before).
C2_Original ==
    UpdatedWithOtherValues =>
        /\ LastWriteWins
        /\ RowFor(table, lastOp.detail.reffNumber).updated_at > lastOp.old.updated_at

\* C2 amended: ... with created-at unchanged and updated-at set to the store's
\* current timestamp of the second upsert: never earlier than before, and
\* strictly later exactly when the store clock has moved on since the row was
\* last written.
C2_Amended ==
    UpdatedWithOtherValues =>
        LET new == RowFor(table, lastOp.detail.reffNumber)
        IN  /\ LastWriteWins
            /\ new.updated_at = lastOp.at
            /\ new.updated_at >= lastOp.old.updated_at
            /\ (new.updated_at > lastOp.old.updated_at) <=> (lastOp.at > lastOp.old.updated_at)

\* a second upsert with other values, a second after the first
C2_Witness ==
    /\ UpdatedWithOtherValues
    /\ lastOp.at > lastOp.old.updated_at
    /\ lastOp.old.created_at = lastOp.old.updated_at

\* C3: after any sequence of upsert calls, from the monitor, the worker or
\* both, no two stored rows have the same reference number, and the stored
\* reference numbers are exactly the non-empty reference numbers ever
\* successfully upserted.
C3_UniqueReff ==
    /\ \A r1, r2 \in table : r1.reff_number = r2.reff_number => r1 = r2
    /\ StoredReffs = everUpserted \ {""}
    /\ "" \notin StoredReffs

\* both reference numbers stored after calls that upserted one of them twice
C3_Witness ==
    /\ StoredReffs = Reffs
    /\ Len(log) = 2
    /\ log[1].reffs \cap log[2].reffs # {}
    /\ call.state = "idle"

-----------------------------------------------------------------------------
(* Properties of the monitor, checked under Spec *)

\* the invocations of poll that are inside its body
InBody == {i \in Inv : inv[i].pc # "idle"}

\* C4: in the monitor, poll cycles never overlap: for every interleaving of
\* timer ticks with the suspension points of a running cycle, at most one
\* cycle is executing its body at any time.
C4_NoOverlap ==
    /\ Cardinality(InBody) <= 1
    /\ polling <=> InBody # {}

\* a timer tick came while a cycle that a timer tick had started was in its
\* forced re-login, and was turned away
C4_Witness ==
    /\ timerSet
    /\ \E i \in Inv : inv[i].pc \in {"relogin", "renav", "recapture"}
    /\ nextTick > lastRun + PollInterval
    /\ now - lastRun >= PollInterval - 1

\* C5: a poll cycle whose replay call returns HTTP 401 triggers exactly one
\* forced re-login attempt, performed inside that cycle and so before the next
\* scheduled cycle starts; after the initial login and one such failing cycle
\* the login sequence has been invoked exactly 2 times.
C5_ReloginOnce ==
    \A i \in Inv :
       inv[i].err.status = 401 =>
          /\ inv[i].logins = 1
          /\ polling
          /\ InBody = {i}
          /\ cyclesDone = 0 => loginCount = 2

\* the first cycle got HTTP 401, logged in again, captured fresh headers and
\* is about to end
C5_Witness ==
    \E i \in Inv :
       /\ cyclesDone = 0
       /\ inv[i].pc = "finally"
       /\ inv[i].err.status = 401
       /\ inv[i].replayIssued = 1
       /\ inv[i].recaptured
       /\ loginCount = 2

\* C9: within one cycle, header capture strictly precedes replay and replay
\* strictly precedes persistence: no replay call is issued before a header set
\* has been captured, and no store write happens in a cycle before that
\* cycle's replay call has returned successfully.
C9_Order ==
    /\ mainPc \in {"validateEnv", "launch", "pages", "login", "nav", "schema", "capture"}
          => InBody = {} /\ cyclesDone = 0 /\ latestHeaders = NoHeaders
    /\ \A i \in Inv :
         /\ inv[i].replayIssued <= 1
         /\ inv[i].replayIssued > 0 => latestHeaders # NoHeaders
         /\ inv[i].pc = "refresh" => inv[i].replayIssued = 0 /\ inv[i].writes = 0
         /\ inv[i].pc = "replay" => inv[i].replayIssued = 1 /\ inv[i].writes = 0
         /\ (inv[i].pc = "persist" \/ inv[i].writes > 0)
               => inv[i].replayOk /\ inv[i].replayIssued = 1
    /\ jobReplay.issued <= 1
    /\ jobReplay.issued > 0 => Truthy(jobHeaders["secret-token"])
    /\ jobPc \in {"start", "ensureSchema", "launch", "login", "nav", "capture"}
          => jobReplay.issued = 0 /\ jobStored = 0
    /\ jobPc = "fetch" => jobReplay.issued = 1 /\ ~jobReplay.ok /\ jobStored = 0
    /\ (jobPc = "upsert" \/ jobStored > 0) => jobReplay.ok /\ jobReplay.issued = 1

\* a cycle that captured headers, replayed and then wrote to the store
C9_Witness ==
    \E i \in Inv :
       /\ inv[i].pc = "finally"
       /\ inv[i].captures = 1
       /\ ~inv[i].recaptured
       /\ inv[i].replayIssued = 1
       /\ inv[i].replayOk
       /\ inv[i].writes = MaxBatch

\* an error is authentication-class: HTTP status 401 or 403, or a message that
\* contains "unauthorized", "forbidden" or "login", whatever the case
AuthClass(e) ==
    \/ e.status \in {401, 403}
    \/ \E word \in {STR_unauthorized, STR_forbidden, STR_login} :
         \E k \in 1..Len(e.msg) :
            /\ k + Len(word) - 1 <= Len(e.msg)
            /\ \A j \in 1..Len(word) : LowerChar(e.msg[k + j - 1]) = word[j]

\* C10: a failed cycle is classified as an authentication failure, and runs
\* the forced login followed by a fresh header capture before the next
\* scheduled cycle, if and only if the error carries HTTP status 401 or 403 or
\* its message contains "unauthorized", "forbidden" or "login"
\* case-insensitively.
C10_AuthClass ==
    \A i \in Inv :
       /\ inv[i].err = NoErr => inv[i].logins = 0
       /\ inv[i].err # NoErr => (inv[i].logins = 1 <=> AuthClass(inv[i].err))
       /\ inv[i].recaptured => inv[i].logins = 1 /\ inv[i].pc = "finally"
       /\ inv[i].logins = 1 => inv[i].pc \in {"relogin", "renav", "recapture", "finally"}
       /\ inv[i].logins = 1 => polling /\ InBody = {i}
       /\ inv[i].pc \in {"relogin", "renav", "recapture"} => inv[i].logins = 1

\* a cycle failed with a message in capitals, logged in again and captured
C10_Witness ==
    \E i \in Inv :
       /\ inv[i].pc = "finally"
       /\ inv[i].err = Err(NoStatus, MSG_FORBIDDEN)
       /\ inv[i].logins = 1
       /\ inv[i].recaptured

-----------------------------------------------------------------------------
(* Properties of capture and replay, checked under SpecReplay *)

\* the capture returned a header map without a usable secret-key or secret-id
LacksSecret ==
    /\ rpPc \in {"replay", "fetching", "returned", "threw"}
    /\ rpCaptured # NoHeaderMap
    /\ ~Truthy(rpCaptured["secret-key"]) \/ ~Truthy(rpCaptured["secret-id"])

\* C6: a captured header set that lacks secret-key (or secret-id) is rejected
\* before any replay attempt: in every variant the replay operation fails
\* without issuing the transaction-fetch network call.
C6_RejectedBeforeReplay ==
    LacksSecret => rpNetCalls = 0 /\ rpPc # "returned"

\* the monitor replayed a header set without secret-key: the network call was
\* issued, and the replay returned the payload
C6_MonitorReplayed ==
    /\ rpVariant = "monitor"
    /\ rpCaptured["secret-key"] = Null
    /\ Truthy(rpCaptured["secret-id"]) /\ Truthy(rpCaptured["secret-token"])
    /\ rpNetCalls = 1
    /\ rpPc = "returned"

-----------------------------------------------------------------------------
(* Properties of the detail extractor, checked under SpecWalk *)

\* how often the object d is in the sequence
Occurrences(seq, d) == Cardinality({k \in 1..Len(seq) : seq[k] = d})

\* the objects that can be reached from the payload
RECURSIVE ReachableFrom(_, _)
ReachableFrom(graph, seen) ==
    LET more == seen \cup
                  {r \in Objects : \E n \in seen \cap Nodes :
                                      r \in {graph[n].detail, graph[n].next}}
    IN  IF more = seen THEN seen ELSE ReachableFrom(graph, more)

\* the objects whose detail property holds the object d
ParentsOf(graph, d) == {n \in Nodes : graph[n].detail = d}

\* C7 as stated: the recursive detail extractor terminates on every finite
\* object graph, including cyclic graphs in which a node references an
\* ancestor, and its result contains each distinct detail object at most once
\* (also when the same detail object is reachable from more than one parent
\* node).
C7_Original ==
    /\ wkCalls <= 1 + 2 * MaxNodes
    /\ wkPc = "returned" => \A d \in Objects : Occurrences(wkDetails, d) <= 1

\* what the extractor has returned: every entry is an object, and an object
\* is there once for each reachable object that has it as its detail
ResultPerParent ==
    /\ wkCalls <= 1 + 2 * MaxNodes
    /\ wkPc = "returned" =>
          /\ wkVisited = ReachableFrom(wkGraph, {1})
          /\ \A k \in 1..Len(wkDetails) : wkDetails[k] \in Objects
          /\ \A d \in Objects :
                Occurrences(wkDetails, d)
                   = Cardinality(ParentsOf(wkGraph, d) \cap wkVisited)

\* C7 (amended): the recursive detail extractor terminates on every finite
\* object graph, cyclic ones included, after at most one call of walk for the
\* payload and one for each property value of each object; its result holds
\* a detail object once for each reachable object whose detail property is
\* that object, so at most once when no two reachable objects share it.
C7_Amended == []ResultPerParent /\ <>(wkPc = "returned")

\* the payload and its other property value have the same detail record, and
\* that other value refers back to the payload: the extractor has returned,
\* with the record twice in its result
C7_Witness ==
    /\ wkPc = "returned"
    /\ wkGraph[1] = [detail |-> Leaf, next |-> 2]
    /\ wkGraph[2] = [detail |-> Leaf, next |-> 1]
    /\ wkDetails = <<Leaf, Leaf>>

-----------------------------------------------------------------------------
(* Properties of date normalization, checked under SpecDate *)

\* the string has the form YYYYMMDD or YYYY-MM-DD
IsDateForm(raw) ==
    \/ Len(raw) = 8 /\ \A k \in 1..8 : raw[k] \in Digits
    \/ /\ Len(raw) = 10
       /\ raw[5] = "-" /\ raw[8] = "-"
       /\ \A k \in (1..10) \ {5, 8} : raw[k] \in Digits

\* C8: date normalization maps both the hyphenated form "2025-11-26" and the
\* compact form "20251126" to "20251126", and fails with a format error for
\* every malformed date string, including "25-11-2026" (wrong digit
\* grouping); it never returns a value for an input that is not YYYY-MM-DD or
\* YYYYMMDD.
C8_DateFormat ==
    (dtPc \in {"returned", "threw"} /\ dtRaw # <<>>) =>
       /\ dtRaw \in {DATE_20251126_Hyphens, DATE_20251126_Compact}
             => dtPc = "returned" /\ dtResult = DATE_20251126_Compact
       /\ dtRaw = DATE_DayFirst => dtPc = "threw"
       /\ dtPc = "returned" <=> IsDateForm(dtRaw)

\* "25-11-2026" was accepted and came back as "25112026"
C8_DayFirstAccepted ==
    /\ dtRaw = DATE_DayFirst
    /\ dtPc = "returned"
    /\ dtResult = <<"2", "5", "1", "1", "2", "0", "2", "6">>

-----------------------------------------------------------------------------
(* Properties of the monitor's failure handling, checked under Spec *)

\* the steps of main before its first call of poll
Bootstrap == {"validateEnv", "launch", "pages", "login", "nav", "schema", "capture"}

\* C11 as stated: locator failures and header-capture failures, wherever they
\* occur in the monitor (bootstrap login/capture, header refresh at the start
\* of a cycle, forced re-login), are recovered by forcing a fresh login and
\* never terminate the process; only configuration errors and failure to
\* start the rendering engine are process-fatal.
C11_Original ==
    /\ [](\A i \in Inv :
            (inv[i].pc = "finally" /\ inv[i].err \in CaptureErrors) => inv[i].logins = 1)
    /\ [][mainPc' = "fatal" => mainPc \in {"validateEnv", "launch"}]_vars

\* C11 (amended): a failure inside a poll cycle (header refresh, replay,
\* persistence, forced re-login) never terminates the process, and a fresh
\* login is forced only for an authentication-class error, so a header-capture
\* failure at the start of a cycle is logged and no login follows it; every
\* failure of the bootstrap (configuration, browser launch, initial login or
\* navigation, schema setup, initial header capture) is process-fatal.
C11_Amended ==
    /\ [](\A i \in Inv :
            inv[i].err \in CaptureErrors =>
               /\ inv[i].logins = 0
               /\ inv[i].pc = "finally"
               /\ mainPc \in {"awaitPoll", "scheduled"})
    /\ [](mainPc = "fatal" => InBody = {} /\ cyclesDone = 0 /\ ~timerSet /\ lastRun = 0)
    /\ [][mainPc' = "fatal" => mainPc \in Bootstrap]_vars

\* a cycle started by the timer failed in its header refresh: no login
\* followed, and the monitor is still scheduled
C11_Witness ==
    \E i \in Inv :
       /\ mainPc = "scheduled"
       /\ inv[i].pc = "finally"
       /\ inv[i].err = Err(NoStatus, MSG_CaptureTimeout)
       /\ inv[i].logins = 0
       /\ loginCount = 1

\* the step is a timer tick that passes both guards of poll
TickPassesGuards ==
    /\ timerSet
    /\ now >= nextTick
    /\ nextTick' # nextTick
    /\ PollGuard

\* C12: once the monitor's polling loop is running, no failure of any cycle
\* (header refresh, replay, persistence, or a failing forced re-login) escapes
\* the cycle: the cycle always completes without rejecting, and every later
\* timer tick that passes the guards runs a new cycle.
C12_CyclesComplete ==
    /\ [](polling => <>(~polling))
    /\ [](\A i \in Inv : inv[i].pc \in {"idle", "refresh", "replay", "persist",
                                        "relogin", "renav", "recapture", "finally"})
    /\ [][mainPc \notin Bootstrap => mainPc' # "fatal"]_vars
    /\ [][TickPassesGuards => polling' /\ lastRun' = now /\ InBody' # {}]_vars

\* a cycle with a forced re-login has completed, and a timer tick has started
\* the next cycle
C12_Witness ==
    \E i \in Inv :
       /\ mainPc = "scheduled"
       /\ cyclesDone >= 1
       /\ loginCount = 2
       /\ polling
       /\ inv[i].pc \in {"refresh", "replay"}
       /\ inv[i].logins = 0

------------------------------------------------------------------------------
(* Properties of the monitor's in-flight flag, checked under Spec *)

\* the step is a timer tick that finds no cycle in its body and is not
\* debounced
TickAfterCycle ==
    /\ timerSet
    /\ now >= nextTick
    /\ nextTick' # nextTick
    /\ InBody = {}
    /\ ~(now - lastRun < PollInterval - 1)

\* C37: the monitor's in-flight flag is false whenever no cycle is executing:
\* every cycle that sets it leaves its body only through the finally block,
\* which resets it whatever the outcome was (succeeded, failed transient,
\* failed and logged in again, forced login failed), and a tick that comes
\* after a finished cycle and is not debounced starts a new cycle.
C37_FlagReset ==
    /\ [](InBody = {} => ~polling)
    /\ [][\A i \in Inv :
             (inv[i].pc # "idle" /\ inv'[i].pc = "idle") =>
                inv[i].pc = "finally" /\ ~polling' /\ InBody' = {}]_vars
    /\ [][\A i \in Inv :
             (inv[i].pc = "idle" /\ inv'[i].pc # "idle") => ~polling /\ polling']_vars
    /\ [][TickAfterCycle => polling' /\ InBody' # {}]_vars

\* a cycle whose forced login threw has finished: the page is still on the
\* login form, no cycle is in its body and the flag is down
C37_Witness ==
    /\ mainPc = "scheduled"
    /\ cyclesDone >= 1
    /\ loginFailed
    /\ loginCount = 2
    /\ InBody = {}
    /\ ~polling
    /\ timerSet

------------------------------------------------------------------------------
(* Properties of the worker job's result *)

\* runFetchJob has left its body: by a return or by a throw
JobEnded == jobPc \in {"returned", "responded", "thrown"}

\* a WorkerResult as index.ts builds it: a success carries transactionsStored,
\* a failure carries no count and one of the two failure messages
Structured(result) ==
    IF result.success
    THEN /\ result.stored >= 0
         /\ result.message \in {"No transactions found for today", "Successfully processed"}
    ELSE /\ result.stored = -1
         /\ result.message \in {"Missing credentials", "Failed to fetch transactions"}

\* C13: the worker's fetch job never throws: whatever schema setup, launch,
\* login, capture, replay and upsert do, the job ends by returning a
\* structured result (success with transactionsStored, or failure with an
\* error message), and /trigger answers 200 exactly when success is true and
\* 500 otherwise
C13_JobNeverThrows ==
    /\ jobPc # "thrown"
    /\ (jobPc # "off" /\ ~ENABLED JobNext) => JobOver
    /\ JobEnded => jobResult # NoResult /\ Structured(jobResult)
    /\ ~JobEnded => jobResult = NoResult /\ jobCall.status = 0
    /\ jobPc = "returned" => jobCall.status = 0
    /\ jobPc = "responded" =>
          /\ jobCall.via = "trigger"
          /\ jobCall.status \in {200, 500}
          /\ jobCall.status = 200 <=> jobResult.success

\* the second invocation, started by /trigger, failed inside the browser and
\* was answered with 500
C13_Witness ==
    /\ jobPc = "responded"
    /\ jobCall.n = 2
    /\ jobCall.status = 500
    /\ jobPending.threw
    /\ ~jobResult.success

------------------------------------------------------------------------------
(* Properties of the poll guards *)

\* a guard of poll makes it return at once
TickBlocked == polling \/ now - lastRun < PollInterval - 1

\* a timer tick is due and only the debounce test stops it
C14_DebounceDue == timerSet /\ now >= nextTick /\ ~polling /\ now - lastRun < PollInterval - 1

\* C14: a timer tick is skipped entirely when a cycle is in flight or when
\* less than (interval - 1s) has passed since the start of the last run: the
\* skipped tick does no login, capture, replay or store operation and leaves
\* lastRun, the in-flight flag and the header set unchanged; a cycle starts
\* only with no cycle in flight and at least (interval - 1s) after the start
\* of the run before it, and it records its own start in lastRun
C14_SkippedTick ==
    [][ /\ (TimerTick /\ TickBlocked) =>
              UNCHANGED <<lastRun, polling, latestHeaders, inv, loginCount,
                          pageUrl, cyclesDone, mainPc>>
        /\ (InBody' # InBody /\ InBody' \ InBody # {}) =>
              /\ ~TickBlocked
              /\ InBody = {}
              /\ lastRun' = now
              /\ polling'
        /\ lastRun' # lastRun => ~TickBlocked /\ lastRun' = now ]_vars

\* a tick came at this very time while a cycle that had started earlier was
\* still in flight, and it was skipped
C14_Witness ==
    /\ polling
    /\ timerSet
    /\ nextTick = now + PollInterval
    /\ lastRun < now
    /\ InBody # {}

------------------------------------------------------------------------------
(* Properties of the monitor's startup *)

\* C15: at startup the monitor runs exactly one poll cycle right after the
\* initial login and header capture, the guards of poll never suppress that
\* first cycle, and setInterval is called only once that cycle has finished
C15_StartupCycle ==
    /\ [](mainPc = "poll" =>
            /\ PollGuard
            /\ latestHeaders # NoHeaders
            /\ loginCount <= 1
            /\ cyclesDone = 0 /\ InBody = {} /\ ~timerSet)
    /\ [](mainPc = "awaitPoll" =>
            /\ Cardinality(InBody) = 1
            /\ polling /\ cyclesDone = 0 /\ ~timerSet)
    /\ [](mainPc = "setInterval" => cyclesDone = 1 /\ InBody = {} /\ ~polling /\ ~timerSet)
    /\ [](timerSet => cyclesDone >= 1 /\ mainPc = "scheduled")
    /\ [][(mainPc = "capture" /\ mainPc' \notin {"capture", "fatal"}) => mainPc' = "poll"]_vars
    /\ [][(mainPc = "poll" /\ mainPc' # "poll") =>
              /\ mainPc' = "awaitPoll"
              /\ Cardinality(InBody') = 1
              /\ lastRun' = now]_vars
    /\ [][(mainPc = "awaitPoll" /\ mainPc' # "awaitPoll") =>
              mainPc' = "setInterval" /\ cyclesDone' = 1]_vars
    /\ [][(~timerSet /\ timerSet') =>
              /\ mainPc = "setInterval"
              /\ cyclesDone = 1 /\ InBody = {} /\ ~polling
              /\ nextTick' = now + PollInterval]_vars

\* the timer has just been set, after the one startup cycle, which began at
\* the start of the run and took a while, has finished
C15_Witness ==
    /\ mainPc = "scheduled"
    /\ timerSet
    /\ cyclesDone = 1
    /\ InBody = {}
    /\ lastRun = StartNow
    /\ now > lastRun
    /\ nextTick = now + PollInterval

------------------------------------------------------------------------------
(* Properties of the worker's browser session *)

\* C16: every invocation of the worker launches its own browser session and
\* closes it before it returns, on the success path and on every failure
\* path (login, navigation, capture or replay throwing); an invocation
\* starts with no session and none is carried over to the next one
C16_SessionReleased ==
    /\ [](jobPc \in {"off", "start", "ensureSchema", "launch"} => ~jobBrowser)
    /\ [](jobPc \in {"login", "nav", "capture", "fetch", "close"} => jobBrowser)
    /\ [](jobPc \in {"upsert", "returned", "responded", "thrown"} => ~jobBrowser)
    /\ [][(~jobBrowser /\ jobBrowser') => jobPc = "launch" /\ jobPc' = "login"]_vars
    /\ [][(jobBrowser /\ ~jobBrowser') => jobPc = "close"]_vars
    /\ [][jobCall'.n # jobCall.n => ~jobBrowser /\ ~jobBrowser' /\ jobPc' = "start"]_vars

\* the second invocation has returned its failure after the replay call
\* threw, and it holds no session
C16_Witness ==
    /\ jobPc = "returned"
    /\ jobCall.n = 2
    /\ jobPending.threw
    /\ jobReplay.issued = 1
    /\ ~jobBrowser

------------------------------------------------------------------------------
(* Properties of the monitor's shutdown, checked under SpecSignal *)

C17_HandledOnceRegistered ==
    /\ (HandlersRegistered /\ shutdown.pc = "exited") =>
          shutdown.closeTried /\ shutdown.exit = 0
    /\ shutdown.pc = "closing" => shutdown.closeTried /\ (Running => ENABLED CleanupExit)

------------------------------------------------------------------------------
(* Properties of the monitor's configuration test, checked under Spec *)

\* the portal username or the portal password is not set
CredentialsAbsent == ~processEnv.username \/ ~processEnv.password

\* the exit status of the monitor's process: main().catch exits with 1,
\* cleanup with 0
ExitStatus == IF mainPc = "fatal" THEN 1 ELSE shutdown.exit

\* C18: with the portal username or password absent at process start, the
\* monitor's first step ends the process with a configuration error and a
\* non-zero exit status: the browser is never launched, no login is
\* attempted and the store is never contacted
C18_FailFast ==
    /\ []((CredentialsAbsent /\ mainPc # "off") =>
            /\ mainPc \in {"validateEnv", "fatal"}
            /\ mainPc = "fatal" => ExitStatus # 0 /\ ExitStatus # NoExit
            /\ ~BrowserLaunched
            /\ loginCount = 0 /\ pageUrl = "blank"
            /\ latestHeaders = NoHeaders
            /\ InBody = {} /\ cyclesDone = 0 /\ ~timerSet)
    /\ [][(CredentialsAbsent /\ mainPc = "validateEnv" /\ mainPc' # mainPc) =>
              mainPc' = "fatal"]_vars

\* the password alone is missing and the process has exited with status 1
C18_Witness ==
    /\ processEnv.username /\ ~processEnv.password /\ processEnv.cloudflare
    /\ mainPc = "fatal"
    /\ ExitStatus = 1
    /\ loginCount = 0

------------------------------------------------------------------------------
(* Properties of the upsert loop, checked under SpecStore *)

\* the step handles a record without a reference number
SkipStep == call'.n = call.n + 1 /\ call'.withReff = call.withReff

\* C19: in an upsert call a record without a reference number is skipped
\* silently: it causes no store write and no error and the loop goes on with
\* the next record, and the count returned is the number of records of the
\* batch that have a reference number
C19_SkipsSilently ==
    /\ [][SkipStep =>
              /\ UNCHANGED <<table, log, everUpserted, lastOp>>
              /\ call'.state = "running"
              /\ call'.stored = call.stored]_vars
    /\ [](\A r \in table : Truthy(r.reff_number))
    /\ [](call.stored = call.withReff)
    /\ [](\A k \in 1..Len(log) : ~log[k].threw => log[k].result = log[k].withReff)

\* a first call skipped one record, stored the other and returned 1
C19_Witness ==
    /\ Len(log) >= 1
    /\ ~log[1].threw
    /\ ~log[1].distinct
    /\ log[1].result = 1
    /\ log[1].withReff = 1
    /\ Cardinality(table) = 1

------------------------------------------------------------------------------
(* Properties of a failing store operation, checked under Spec *)

\* C20: when a store operation fails during an upsert call, the error leaves
\* the upsert and reaches the cycle's failure path (the catch block of poll
\* in the monitor, the success=false result in the worker), and the rows
\* written earlier in that call earn no credit: no stored count is returned
\* or reported for the call
C20_NoPartialCredit ==
    /\ [](\A i \in Inv :
            /\ inv[i].err \in PersistErrors =>
                  /\ inv[i].pc \in {"relogin", "renav", "recapture", "finally"}
                  /\ inv[i].reported = NoCount
            /\ inv[i].reported # NoCount =>
                  /\ inv[i].err = NoErr
                  /\ inv[i].pc = "finally"
                  /\ inv[i].reported = inv[i].writes)
    /\ [][\A i \in Inv :
            (inv[i].pc = "persist" /\ inv'[i].pc # "persist" /\ inv[i].left > 1) =>
               /\ inv'[i].err \in PersistErrors
               /\ inv'[i].reported = NoCount
               /\ inv'[i].pc \in {"relogin", "finally"}]_vars
    /\ [][(jobPc = "upsert" /\ jobPc' # "upsert" /\ jobLeft > 1) =>
              /\ jobPc' = "returned"
              /\ ~jobResult'.success
              /\ jobResult'.stored = -1
              /\ jobResult'.message = "Failed to fetch transactions"]_vars
    /\ [](jobPc \in {"returned", "responded"} /\ jobResult.success =>
              jobLeft = 0 /\ jobResult.stored = jobStored)

\* the second statement of a batch failed after the first had written its
\* row: the cycle is in its failure path and no count was reported
C20_Witness ==
    \E i \in Inv :
       /\ inv[i].err \in PersistErrors
       /\ inv[i].writes = 1
       /\ inv[i].pc = "finally"
       /\ inv[i].reported = NoCount

------------------------------------------------------------------------------
(* Properties of a header capture that times out, checked under Spec *)

\* the step is a header capture of cycle i that throws
CaptureFails(i) ==
    \/ inv[i].pc = "refresh" /\ inv'[i].pc # "replay" /\ inv'[i].pc # "refresh"
    \/ /\ inv[i].pc = "recapture" /\ inv'[i].pc = "finally"
       /\ inv'[i].captures = inv[i].captures

\* C21: when header capture times out in a cycle, the cycle fails as a
\* whole: the capture installs no header set, and no replay call and no
\* store write follow it in that cycle
C21_CaptureTimeoutFailsCycle ==
    /\ [][\A i \in Inv :
            CaptureFails(i) =>
               /\ latestHeaders' = latestHeaders
               /\ inv'[i].pc = "finally"
               /\ inv'[i].replayIssued = inv[i].replayIssued
               /\ inv'[i].writes = inv[i].writes
               /\ inv'[i].reported = NoCount]_vars
    /\ [](\A i \in Inv :
            inv[i].err \in CaptureErrors =>
               /\ inv[i].replayIssued = 0
               /\ inv[i].writes = 0
               /\ inv[i].captures = 0
               /\ ~inv[i].replayOk)
    /\ []((jobPending.threw /\ jobReplay.issued = 0) =>
            /\ jobHeaders = NoHeaderMap
            /\ jobStored = 0
            /\ jobPc \in {"close", "returned", "responded"}
            /\ JobOver => ~jobResult.success)

\* the refresh of a cycle timed out: the header set without the rotating
\* token is still the current one and the cycle issued no replay call
C21_Witness ==
    \E i \in Inv :
       /\ inv[i].pc = "finally"
       /\ inv[i].err = Err(NoStatus, MSG_CaptureTimeout)
       /\ inv[i].replayIssued = 0
       /\ inv[i].writes = 0
       /\ latestHeaders = HdrFull \ {"secret-token"}
       /\ cyclesDone >= 1

-----------------------------------------------------------------------------
(* Properties of the login sequence, checked under SpecLogin *)

\* C22: the login sequence fails only when the submit control could not be found
\* or clicked; the timeout of a wait (form gate, CTA confirmation, navigation,
\* refresh call, post-login URL, document-ready state) never aborts it
C22_OnlySubmitAborts == lgError \in {"none", "submit"}

\* the monitor's login: every step up to the document-ready wait resolved, that
\* wait timed out, and ensureLogin threw
C22_ReadyTimeoutAborts ==
    /\ lgVariant = "monitor"
    /\ lgError = "ready"
    /\ lgMissed = {}
    /\ lgPc = Len(LoginSteps)

-----------------------------------------------------------------------------
(* Properties of the replay client's outcome, checked under SpecReplay *)

Replied == rpPc \in {"returned", "threw"} /\ rpOutcome # NoOutcome

\* C23: a response with a non-success HTTP status yields an error that carries
\* that status and the body text cut to a fixed length; a success status with a
\* body that is not JSON yields a malformed-response error that does not ask for
\* a re-login; records come only from a success status with a JSON body
C23_OutcomeMapping ==
    Replied =>
        LET response == rpOutcome.response
        IN  /\ response.status \in FailStatuses =>
                /\ rpPc = "threw"
                /\ rpOutcome.kind = "api"
                /\ rpOutcome.status = response.status
                /\ rpOutcome.body # NoBody
                /\ rpOutcome.body <= response.len
                /\ rpOutcome.body = response.len \/ rpOutcome.body \in {BodyLimit, BodyLimitOneShot}
            /\ (response.status = 200 /\ response.json = "none") =>
                /\ rpPc = "threw"
                /\ rpOutcome.kind = "notJson"
                /\ ~rpOutcome.relogin
            /\ rpPc = "returned" =>
                response.status = 200 /\ response.json # "none"

\* the same, of the monitor's client alone
C23_MonitorMapping == rpVariant = "monitor" => C23_OutcomeMapping

\* the worker's client got a 403 whose body is not JSON: the error it throws
\* names status 0 and carries no body
C23_WorkerLosesStatus ==
    /\ rpVariant = "worker"
    /\ Replied
    /\ rpOutcome.response.status = 403
    /\ rpOutcome.response.json = "none"
    /\ rpPc = "threw"
    /\ rpOutcome.status = 0
    /\ rpOutcome.body = NoBody

-----------------------------------------------------------------------------
(* Properties of header capture, checked under SpecCapture *)

\* the requests the listener saw, in order
Heard == SelectSeq(cpIssued, LAMBDA r : r.heard)

-----------------------------------------------------------------------------
(* Properties of the headers a replay sends, checked under SpecReplay *)

Whitelisted ==
    {"secret-id", "secret-key", "secret-token", "session-item", "accept",
     "accept-language", "referer"}

\* the replay call has been issued with rpSent
Sent == rpNetCalls > 0

\* C25 as stated: the names on the list are sent with their captured values, and
\* no other name is sent
C25_SendsWhitelistAsCaptured ==
    Sent => \A k \in HeaderNames :
                rpSent[k] = IF k \in Whitelisted THEN rpCaptured[k] ELSE Null

\* the names a variant sends when they are captured, and whether it sends them
\* with an empty value
SendsName(variant, k) ==
    IF variant = "oneshot"
    THEN k \in {"secret-id", "secret-key", "secret-token", "session-item", "accept"}
    ELSE k \in Whitelisted
SendsEmpty(variant) == variant = "monitor"

\* C25, amended: no name off the list is sent, and what is sent has its captured
\* value; the monitor sends every listed name captured, the worker those with a
\* non-empty value, the one-shot fetcher those of its five names with a
\* non-empty value
C25_SendsOnlyWhitelisted ==
    Sent => \A k \in HeaderNames :
                /\ k \notin Whitelisted => rpSent[k] = Null
                /\ rpSent[k] # Null => rpSent[k] = rpCaptured[k]
                /\ rpSent[k] = Null =>
                      \/ rpCaptured[k] = Null
                      \/ ~SendsName(rpVariant, k)
                      \/ rpCaptured[k] = "" /\ ~SendsEmpty(rpVariant)

\* a replay was sent for a captured map that held a name off the list and
\* every name on it
C25_Witness ==
    /\ Sent
    /\ rpCaptured["user-agent"] = "v"
    /\ rpSent["user-agent"] = Null
    /\ \A k \in HeaderNames \cap Whitelisted : rpCaptured[k] = "v" /\ rpSent[k] = "v"

-----------------------------------------------------------------------------
(* Properties of one cycle from login to the store, checked under SpecRun *)

\* the record {reffNumber: "TX1", authAmountNumber: 50000, customerName: "JOHN DOE"}
TX1Record ==
    [reffNumber |-> "TX1", customerName |-> "JOHN DOE",
     transferAmountNumber |-> Undefined, feeAmountNumber |-> Undefined,
     authAmountNumber |-> Num(50000), percentageFeeAmountNumber |-> Undefined]

\* C26: with the login form behind the CTA and the endpoint serving that record,
\* a cycle that went through login, capture, replay and upsert from an empty
\* store ends with exactly one row, of reff_number "TX1" and auth_amount_number
\* 50000
C26_OneRowStored ==
    (runPortal = [cta |-> TRUE, record |-> TX1Record] /\ runPc = "done") =>
        /\ Cardinality(runTable) = 1
        /\ \A r \in runTable : r.reff_number = "TX1" /\ r.auth_amount_number = 50000

\* the monitor's cycle on that portal is over and the row is stored
C26_Witness ==
    /\ runVariant = "monitor"
    /\ runPortal = [cta |-> TRUE, record |-> TX1Record]
    /\ runPc = "done"
    /\ runNext = 2
    /\ \E r \in runTable : r.reff_number = "TX1"

\* the amount field of the record that feeds a numeric column is empty or absent
EmptyOrAbsent(value) == value \in {Undefined, JsNull, Str("")}

-----------------------------------------------------------------------------
(* Properties of the order of navigation and capture, checked under SpecCapture *)

\* C28: the request the page issues to the transaction-fetch path, be it once
\* and while the page loads, is observed by header capture: whenever such a
\* request is issued the listener is registered already
C28_ListenerBeforeRequest ==
    \A k \in DOMAIN cpIssued : cpIssued[k].heard

\* the monitor navigated, the page issued its one GET while it loaded and got
\* the response, the listener was registered afterwards and capture timed out
C28_RequestMissed ==
    /\ cpVariant = "monitor"
    /\ ~cpOnPage
    /\ cpPc = "timedOut"
    /\ Len(cpIssued) = 1
    /\ cpIssued[1].method = "GET"
    /\ cpIssued[1].answered
    /\ ~cpIssued[1].heard
    /\ cpCaptured = NoHeaderMap

-----------------------------------------------------------------------------
(* Properties of a forced login that failed, checked under Spec *)

\* invocation i leaves the try block of poll with a failure, in a cycle that
\* runs after a forced login threw and before any login succeeded
FailsAfterLoginFailed(i) ==
    /\ loginFailed
    /\ inv[i].pc \in {"refresh", "replay", "persist"}
    /\ inv'[i].err # NoErr

\* a forced login is invoked at most once in a cycle, and when it throws the
\* cycle goes to its finally block
NoRetryInCycle ==
    /\ [](\A i \in Inv : inv[i].logins <= 1)
    /\ [][\A i \in Inv : (inv[i].pc = "relogin" /\ loginFailed' /\ inv'[i] # inv[i]) =>
              /\ inv'[i].pc = "finally"
              /\ inv'[i].logins = inv[i].logins
              /\ latestHeaders' = latestHeaders]_vars

-----------------------------------------------------------------------------
(* Properties of a header set without the rotating token, checked under Spec *)

LacksToken(h) == "secret-token" \notin h

\* the monitor: a capture that returns a set without secret-token is taken like
\* any other; a cycle that starts with such a set captures before it replays,
\* and a cycle that starts with a set that has secret-token replays at once and
\* captures nothing at its start
MonitorToleratesNoToken ==
    /\ [][(mainPc = "capture" /\ latestHeaders' # latestHeaders) => mainPc' = "poll"]_vars
    /\ [][\A i \in Inv : (inv[i].pc = "refresh" /\ latestHeaders' # latestHeaders) =>
              inv'[i].pc = "replay" /\ inv'[i].err = NoErr]_vars
    /\ [][\A i \in Inv : (inv[i].pc = "idle" /\ inv'[i].pc # "idle") =>
              IF LacksToken(latestHeaders)
              THEN inv'[i].pc = "refresh" /\ inv'[i].replayIssued = 0
              ELSE inv'[i].pc = "replay" /\ inv'[i].captures = 0]_vars
    /\ [](\A i \in Inv : inv[i].pc = "refresh" =>
              inv[i].replayIssued = 0 /\ LacksToken(latestHeaders))

\* C30 as stated: no capture fails because secret-token is absent, and the
\* scheduler recaptures at the start of a cycle exactly when the set lacks it
C30_NoTokenTolerated ==
    /\ MonitorToleratesNoToken
    /\ [](~jobPending.missingToken)

\* C30, amended: the monitor's capture does not fail because secret-token is
\* absent and its scheduler recaptures at the start of a cycle exactly when the
\* set lacks it; the worker's capture throws when secret-token is absent, and no
\* replay follows
C30_MonitorToleratesNoToken ==
    /\ MonitorToleratesNoToken
    /\ [][jobPending'.missingToken =>
              /\ jobPending'.threw
              /\ jobReplay' = jobReplay
              /\ jobHeaders' = jobHeaders]_vars

\* the monitor's bootstrap captured a set without secret-token, and the first
\* cycle has started with a capture and no replay
C30_Witness ==
    /\ mainPc = "awaitPoll"
    /\ LacksToken(latestHeaders)
    /\ "secret-id" \in latestHeaders
    /\ \E i \in Inv : inv[i].pc = "refresh" /\ inv[i].replayIssued = 0

-----------------------------------------------------------------------------
(* Properties of the scheduler's header set, checked under Spec *)

\* the polling loop runs: the bootstrap of main is over
LoopRuns == mainPc \notin Bootstrap /\ mainPc # "off"

\* invocation i ends a capture that it started because the set lacked the
\* rotating token
RecapturesAtStart(i) ==
    /\ inv[i].pc = "refresh"
    /\ ~HasToken(latestHeaders)
    /\ inv'[i].pc = "replay"

\* invocation i ends the capture that follows a forced login that succeeded
CapturesAfterRelogin(i) ==
    /\ inv[i].pc = "recapture"
    /\ inv[i].logins = 1
    /\ shouldRelogin(inv[i].err)
    /\ ~loginFailed
    /\ inv'[i].pc = "finally"

\* C31: the scheduler's current header set is replaced only by a recapture at
\* the start of a cycle when it lacks the rotating token, or by the fresh
\* capture that follows a successful forced re-login; in every other cycle,
\* whether it succeeds or fails with a non-authentication error, the header set
\* is reused unchanged, no login is invoked and no capture is performed.
C31_HeadersReplacedOnly ==
    /\ [][(LoopRuns /\ latestHeaders' # latestHeaders) =>
              \E i \in Inv :
                 /\ RecapturesAtStart(i) \/ CapturesAfterRelogin(i)
                 /\ inv'[i].captures = inv[i].captures + 1]_vars
    /\ [][\A i \in Inv : (inv[i].pc = "idle" /\ inv'[i].pc # "idle") =>
              IF HasToken(latestHeaders)
              THEN inv'[i].pc = "replay" /\ latestHeaders' = latestHeaders
              ELSE inv'[i].pc = "refresh"]_vars
    /\ [][(LoopRuns /\ loginCount' # loginCount) =>
              \E i \in Inv : inv'[i].pc = "relogin" /\ shouldRelogin(inv'[i].err)]_vars
    /\ [](\A i \in Inv :
            /\ inv[i].pc \in {"relogin", "renav", "recapture"} =>
                  shouldRelogin(inv[i].err) /\ inv[i].logins = 1
            /\ (inv[i].pc # "idle" /\ ~shouldRelogin(inv[i].err)) =>
                  inv[i].logins = 0 /\ ~inv[i].recaptured
            /\ (inv[i].pc \in {"replay", "persist"} /\ inv[i].captures = 0) =>
                  HasToken(latestHeaders)
            /\ inv[i].captures <= IF inv[i].recaptured THEN 2 ELSE 1)

\* a second cycle has failed with an error that is no authentication failure,
\* on the header set the first cycle used: no capture, no login
C31_Witness ==
    \E i \in Inv :
       /\ cyclesDone >= 1
       /\ inv[i].pc = "finally"
       /\ inv[i].err # NoErr
       /\ ~shouldRelogin(inv[i].err)
       /\ inv[i].replayIssued = 1
       /\ inv[i].captures = 0
       /\ inv[i].logins = 0
       /\ loginCount = 1
       /\ HasToken(latestHeaders)

-----------------------------------------------------------------------------
(* Properties of the order of the login steps, checked under SpecLogin *)

\* the state of the login state machine an awaited step belongs to
StageOf(name) ==
    CASE name \in {"goto", "ctaLabel"} -> "Start"
      [] name \in {"ctaNavigation", "ctaUrl"} -> "CtaRevealed"
      [] name = "form" -> "FormVisible"
      [] name \in {"username", "password"} -> "CredentialsEntered"
      [] name \in {"submit", "navigation"} -> "Submitted"
      [] OTHER -> "PostLoginSettled"

\* the steps the run has been through: the ones before lgPc
Visited == [k \in 1..(lgPc - 1) |-> LoginSteps[k].name]

\* the states entered, in order: a state is entered by the first of its steps
RECURSIVE StagesOf(_)
StagesOf(names) ==
    IF names = <<>> THEN <<>>
    ELSE LET front == StagesOf(SubSeq(names, 1, Len(names) - 1))
             stage == StageOf(names[Len(names)])
         IN  IF front # <<>> /\ front[Len(front)] = stage
             THEN front ELSE Append(front, stage)

IsPrefix(a, b) == Len(a) <= Len(b) /\ SubSeq(b, 1, Len(a)) = a

StagesWith(cta, form) ==
    <<"Start">> \o (IF cta THEN <<"CtaRevealed">> ELSE <<>>) \o
    (IF form THEN <<"FormVisible">> ELSE <<>>) \o
    <<"CredentialsEntered", "Submitted", "PostLoginSettled">>

\* username is typed before password, and a run that is over without an error
\* has been through every step
CredentialsInOrder ==
    \A k \in 1..Len(Visited) :
        Visited[k] = "password" => k > 1 /\ Visited[k - 1] = "username"

CtaNeverAborts == lgError \notin {"ctaLabel", "ctaNavigation", "ctaUrl"}

\* C32 as stated: every completed login run visits Start, optional CtaRevealed,
\* FormVisible, CredentialsEntered (username then password), Submitted,
\* PostLoginSettled in this order; CtaRevealed is entered only when the
\* call-to-action label is present, and a failure to confirm the CTA
\* navigation does not abort the run
C32_StepOrder ==
    /\ IsPrefix(StagesOf(Visited), StagesWith(lgPortal.cta, TRUE))
    /\ LoginDone => StagesOf(Visited) = StagesWith(lgPortal.cta, TRUE)
    /\ CredentialsInOrder
    /\ CtaNeverAborts

\* C32, amended: the same order, where FormVisible is visited by the worker
\* always and by the two scripts only when no field selector is configured
C32_StepOrderFormGated ==
    LET form == lgVariant = "worker" \/ ~lgPortal.selectors
    IN  /\ IsPrefix(StagesOf(Visited), StagesWith(lgPortal.cta, form))
        /\ LoginDone => StagesOf(Visited) = StagesWith(lgPortal.cta, form)
        /\ CredentialsInOrder
        /\ CtaNeverAborts

\* a login of the monitor with the call-to-action shown and no field selector
\* configured is over: the CTA navigation was not confirmed, the form was
\* waited for
C32_Witness ==
    /\ LoginDone
    /\ lgVariant = "monitor"
    /\ lgPortal.cta /\ ~lgPortal.selectors
    /\ {"ctaNavigation", "ctaUrl"} \subseteq lgMissed
    /\ Len(StagesOf(Visited)) = 6

-----------------------------------------------------------------------------
(* Properties of the click on the submit control, checked under SpecClick *)

ClickOver == clickRun.result # "none"

\* the tiers are tried in the given order, a later one only after every earlier
\* one failed to click; a call that returns has clicked once, with the last tier
\* it tried, and a call that throws has tried every tier and clicked nothing
TriedInOrder(order) ==
    /\ IsPrefix(clickRun.tried, order)
    /\ \A k \in 1..Len(clickRun.tried) :
          TierClicks(clickRun.variant, clickRun.page, clickRun.tried[k]) =>
             k = Len(clickRun.tried)
    /\ clickRun.clicks <= 1
    /\ clickRun.result = "returned" =>
          /\ clickRun.clicks = 1
          /\ clickRun.tried # <<>>
          /\ TierClicks(clickRun.variant, clickRun.page,
                        clickRun.tried[Len(clickRun.tried)])
    /\ clickRun.result = "threw" => clickRun.clicks = 0 /\ clickRun.tried = order
    /\ clickRun.result = "none" => clickRun.clicks = 0

-----------------------------------------------------------------------------
(* Properties of the lookup of a field by its label, checked under SpecLocate *)

\* the first input in the order: label-control binding, nearest following
\* sibling, nearest preceding sibling, descendant of the label's parent
RECURSIVE FirstOf(_, _)
FirstOf(dom, tiers) ==
    IF tiers = <<>> THEN NoInput
    ELSE IF TierFinds(dom, Head(tiers)) # NoInput THEN TierFinds(dom, Head(tiers))
    ELSE FirstOf(dom, Tail(tiers))

\* C34: a field located by label is resolved by the first of these that yields
\* an input, in this order: the explicit label-control binding, the nearest
\* following sibling containing an input, the nearest preceding sibling
\* containing an input, any descendant input of the label's parent; the locator
\* fails with not-found if none yields an element
C34_ResolutionOrder ==
    locateRun.over =>
       locateRun.result =
          IF locateRun.dom.found
          THEN FirstOf(locateRun.dom, <<"control", "next", "prev", "parent">>)
          ELSE NoInput

\* the same, of the worker's locator alone
C34_WorkerOrder == locateRun.variant = "worker" => C34_ResolutionOrder

\* the monitor's locator, on a label without a bound control that has an input
\* in its nearest following sibling and one in a preceding sibling, has
\* resolved to the preceding one
C34_PrecedingWins ==
    /\ locateRun.variant = "monitor"
    /\ locateRun.over
    /\ ~locateRun.dom.control
    /\ locateRun.dom.next # <<>> /\ locateRun.dom.next[1]
    /\ locateRun.result.at = "prev"

-----------------------------------------------------------------------------
(* Properties of the waits after submit, checked under SpecLogin *)

\* the signals waited for after the click, in the order of the claim; the
\* settle delay that follows cannot fail
PostLoginSignals == <<"navigation", "refresh", "url", "ready">>

SignalNames == {PostLoginSignals[k] : k \in 1..Len(PostLoginSignals)}

\* the signals among the steps the run has been through, in order
SignalsWaited == SelectSeq(Visited, LAMBDA name : name \in SignalNames)

\* C35: after submit the login waits for a navigation event, the
\* authentication-refresh POST call, the URL containing a known post-login
\* path, document-ready state and a fixed settle delay, in this order; a
\* timeout of any one signal does not abort the sequence and the remaining
\* signals are still waited for
C35_SignalsTolerated ==
    /\ IsPrefix(SignalsWaited, PostLoginSignals)
    /\ lgError \notin SignalNames
    /\ LoginDone => SignalsWaited = PostLoginSignals

\* the monitor's login: the refresh call was not observed, which was
\* tolerated; then the document-ready wait timed out and the login threw
\* before its settle delay
C35_ReadyTimeoutAfterMiss ==
    /\ lgVariant = "monitor"
    /\ "refresh" \in lgMissed
    /\ lgError = "ready"
    /\ SignalsWaited = <<"navigation", "refresh", "url">>

-----------------------------------------------------------------------------
(* Properties of the schema and of concurrent clients, checked under
   SpecClients *)

\* client c takes a step of ensureSchema
SchemaStep(c) ==
    /\ clients[c].pc \in {"createTable", "createIndex"}
    /\ clients'[c] # clients[c]

\* C36: in every execution of the monitor and of the worker job the schema is
\* ensured successfully before the first upsert is issued, and ensuring the
\* schema when the table already exists leaves all stored rows unchanged
C36_SchemaFirst ==
    /\ [](\A c \in ClientIds :
            (clients[c].pc = "upsert" \/ clients[c].stored > 0 \/ clients[c].cycles > 0) =>
               clients[c].ensured /\ d1.exists /\ d1.index)
    /\ [][\A c \in ClientIds :
             (clients'[c].ensured /\ ~clients[c].ensured) =>
                clients[c].pc = "createIndex" /\ d1'.exists /\ d1'.index]_vars
    /\ [][\A c \in ClientIds :
             (SchemaStep(c) /\ d1.exists) => d1'.rows = d1.rows /\ d1'.exists]_vars
    /\ [][\A c \in ClientIds :
             (SchemaStep(c) /\ ~d1.exists) => d1'.rows = {}]_vars

\* the manual trigger has ensured the schema on a table that held a row of an
\* earlier run, while the other client has not started: the row is still
\* there and the first upsert is about to be issued
C36_Witness ==
    /\ clients[2].kind = "trigger"
    /\ clients[2].ensured
    /\ clients[2].pc = "upsert"
    /\ clients[2].stored = 0
    /\ clients[1].pc = "createTable"
    /\ d1.rows = {RowOf(mapDetailToColumns(DetailOfReff("TX1")), 0, 0)}

------------------------------------------------------------------------------
(* Properties of the capture's request listener, checked under SpecListeners *)

\* the captures that have ended
Ended == {k \in DOMAIN listenRun.calls : listenRun.calls[k].pc # "waiting"}

\* C38: header capture removes its request listener on every exit path
\* (matching response seen, timeout, no headers recorded): only the capture
\* that is awaiting its response has a listener registered, so none remains
\* after any number of captures; a capture that has ended records nothing
\* more; and the headers a capture returns are of a request issued during
\* that capture, never ones an earlier capture's listener recorded.
C38_ListenerRemoved ==
    /\ [](listenRun.listeners = Waiting)
    /\ [][\A k \in Ended : listenRun'.calls[k] = listenRun.calls[k]]_vars
    /\ [](\A k \in Ended :
             listenRun.calls[k].pc = "returned" =>
                /\ listenRun.calls[k].captured.n > listenRun.calls[k].from
                /\ \A j \in 1..(k - 1) :
                      listenRun.calls[j].captured # listenRun.calls[k].captured)

\* three captures on one page have ended, each in its own way: the first
\* returned the headers of the first request, the second timed out, the third
\* saw the response to a request issued before it began and threw that no
\* headers were recorded; no listener is registered
C38_Witness ==
    /\ Len(listenRun.calls) = 3
    /\ listenRun.calls[1].pc = "returned"
    /\ listenRun.calls[1].captured.n = 1
    /\ listenRun.calls[2].pc = "timedOut"
    /\ listenRun.calls[3].pc = "failed"
    /\ listenRun.calls[3].captured = NoRequest
    /\ listenRun.issued = 2
    /\ listenRun.listeners = {}

------------------------------------------------------------------------------
(* Properties of an upsert call that throws, checked under SpecStore *)

\* the step is the throw of the store operation inside a running call
CallThrows ==
    /\ call.state = "running"
    /\ call'.state = "idle"
    /\ log' = Append(log, ThrownCall)

\* the row the last statement that succeeded left in the table
LastWritten ==
    RowOf(mapDetailToColumns(lastOp.detail),
          IF lastOp.kind = "insert" THEN lastOp.at ELSE lastOp.old.created_at,
          lastOp.at)

\* C39: an upsert call is not atomic over its batch: when the store
\* operation for a record fails, the rows written for the records before it
\* remain stored with their new values, and the records after it are not
\* written (the call is over and the table changes no more until another
\* call is made).
C39_NotAtomic ==
    /\ [][CallThrows =>
             /\ table' = table
             /\ \A reff \in call.reffs : RowFor(table', reff) # NoRow
             /\ call.stored > 0 => LastWritten \in table'
             /\ call' = IdleCall]_vars
    /\ [][call.state = "idle" => table' = table]_vars

\* the only call so far wrote TX1, the clock moved on, and the statement for
\* the second record threw: the call returned no count and the row of TX1 is
\* in the table with the values it was given
C39_Witness ==
    /\ Len(log) = 1
    /\ log[1].threw
    /\ call = IdleCall
    /\ dbClock = 1
    /\ lastOp.kind = "insert"
    /\ lastOp.at = 0
    /\ lastOp.detail.reffNumber = "TX1"
    /\ table = {RowOf(mapDetailToColumns(lastOp.detail), 0, 0)}

------------------------------------------------------------------------------
(* Properties of concurrent worker invocations, checked under SpecClients *)

\* the invocation is inside the loop of upsertTransactions, its first record
\* written and its second one still to come
MidBatch(c) ==
    /\ clients[c].pc = "upsert"
    /\ clients[c].k = 2
    /\ clients[c].stored = 1

\* C40: the worker has no in-flight guard, so a scheduled invocation and a
\* manual-trigger invocation of the fetch job may run concurrently; for every
\* interleaving of their per-record upserts over overlapping record sets the
\* store holds one row per reference number, no row is ever lost, and each
\* row's created-at value is the one set by the first insert of that
\* reference number: an insert sets it to the store's clock and no later
\* statement changes it.
C40_ConcurrentUpserts ==
    /\ [](d1.exists =>
            \A r \in d1.rows, q \in d1.rows : r.reff_number = q.reff_number => r = q)
    /\ [][d1.exists =>
             \A r \in d1.rows :
                \E q \in d1'.rows :
                   q.reff_number = r.reff_number /\ q.created_at = r.created_at]_vars
    /\ [][d1.exists =>
             \A q \in d1'.rows :
                (\A r \in d1.rows : r.reff_number # q.reff_number) =>
                   q.created_at = d1.now /\ q.updated_at = d1.now]_vars

\* a scheduled invocation and a manual trigger are both inside their loops,
\* each has written TX1 as its first record, one at second 0 and the other
\* at second 1: one row of TX1, created at 0 and updated at 1
C40_Witness ==
    /\ clients[1].kind = "scheduled"
    /\ clients[2].kind = "trigger"
    /\ \A c \in ClientIds : MidBatch(c) /\ clients[c].batch[1] = "TX1"
    /\ d1.now = 1
    /\ d1.rows = {RowOf(mapDetailToColumns(DetailOfReff("TX1")), 0, 1)}

====
